---- MODULE Spec2Model ----
(***************************************************************************)
(* A model of the open-variant codec: the metadata dictionary              *)
(* (metadata.rs), the primitive writers and the array and object builders  *)
(* (variant/write.rs) and the readers (values/read.rs).                    *)
(*                                                                         *)
(* Buffers are sequences of bytes (0..255).  A Rust string is the sequence *)
(* of its UTF-8 bytes; str::cmp is the byte-lexicographic order.  Wide     *)
(* integers (i64, i128, f64 bit patterns) are kept as sign and magnitude   *)
(* in little-endian base-256 digits, and converted to and from two's       *)
(* complement bytes by the writers and readers.                            *)
(***************************************************************************)
EXTENDS Integers, Sequences, FiniteSets, TLC

VARIABLES
  overflow_checks,      \* build profile: TRUE = debug (overflow panics), FALSE = release (wraps)
  pc,                   \* position of the caller
  strings,              \* the iterator handed to build_metadata
  metadata,             \* Vec<u8> returned by build_metadata
  metadata_ref,         \* MetadataRef opened over metadata
  find,                 \* locals of a running find_string call
  buffer,               \* the target Vec<u8> of the writers and builders
  header_offset,        \* ObjectBuilder.header_offset / start of the value in buffer
  num_elements,         \* element count declared at construction
  field_offset_width,   \* ArrayBuilder.field_offset_width
  field_id_and_offsets, \* ObjectBuilder.field_id_and_offsets
  tmp_buffer,           \* the builder's scratch buffer
  hist,                 \* ghost: the calls made so far, in order
  result,               \* return of the last call: "ok", "err", "panic", ...
  array,                \* the input Arrow array of the batch functions, one entry per row
  values,               \* the BinaryBuilder filled row by row
  struct_array,         \* the StructArray a batch function returned
  long_len              \* a length past what is written out here, a usize in 8 bytes:
                        \* build_metadata's total_buffer_size, finish()'s final_offset

vars == <<overflow_checks, pc, strings, metadata, metadata_ref, find, buffer,
          header_offset, num_elements, field_offset_width, field_id_and_offsets,
          tmp_buffer, hist, result, array, values, struct_array, long_len>>

(***************************************************************************)
(* Bounds of the model.                                                    *)
(***************************************************************************)
MaxInputs == 3        \* strings in a small build_metadata input
MaxFields == 3        \* appends to one ObjectBuilder
MaxElems == 3         \* appends to one ArrayBuilder
MaxWrites == 2        \* primitive writes into one buffer

(***************************************************************************)
(* Program constants.                                                      *)
(***************************************************************************)
I8_MAX == 127
I16_MAX == 32767
I32_MAX == 2147483647
MAX_SCALE == 38

(***************************************************************************)
(* Slices.  Rust panics on a slice whose range is not inside the data.     *)
(***************************************************************************)
Take(s, n) == SubSeq(s, 1, n)
Drop(s, n) == SubSeq(s, n + 1, Len(s))
\* data[a..b], zero-based, end exclusive
Slice(data, a, b) == SubSeq(data, a + 1, b)
SliceOk(data, a, b) == 0 <= a /\ a <= b /\ b <= Len(data)

RECURSIVE UnsignedLE(_)
\* uN::from_le_bytes
UnsignedLE(bytes) ==
  IF Len(bytes) = 0 THEN 0 ELSE bytes[1] + 256 * UnsignedLE(Tail(bytes))

RECURSIVE SignedLE(_)
\* iN::from_le_bytes: the top byte carries the sign
SignedLE(bytes) ==
  IF Len(bytes) = 1
  THEN (IF bytes[1] >= 128 THEN bytes[1] - 256 ELSE bytes[1])
  ELSE bytes[1] + 256 * SignedLE(Tail(bytes))

RECURSIVE ToLE(_, _)
\* (value as iN).to_le_bytes() for a usize value: the low N bytes, clipped
ToLE(value, width) ==
  IF width = 0 THEN <<>> ELSE <<value % 256>> \o ToLE(value \div 256, width - 1)

\* bit i of a
Bit(a, i) == (a \div (2 ^ i)) % 2

RECURSIVE BitOrFrom(_, _, _)
BitOrFrom(a, b, i) ==
  IF i > 7 THEN 0
  ELSE (IF Bit(a, i) = 1 \/ Bit(b, i) = 1 THEN 2 ^ i ELSE 0) + BitOrFrom(a, b, i + 1)

\* a | b on u8
BitOr(a, b) == BitOrFrom(a, b, 0)
\* a << k on u8: the bits shifted out are lost
Shl(a, k) == (a * (2 ^ k)) % 256
\* a >> k on u8
Shr(a, k) == a \div (2 ^ k)

(***************************************************************************)
(* utils.rs                                                                *)
(***************************************************************************)
determine_byte_width(max_value) ==
  IF max_value <= I8_MAX THEN 1
  ELSE IF max_value <= I16_MAX THEN 2
  ELSE IF max_value <= I32_MAX THEN 4
  ELSE 8

write_integer(buf, value, byte_width) == buf \o ToLE(value, byte_width)

\* write.rs calls the two helpers of utils.rs under these names
get_offset_size(max_offset) == determine_byte_width(max_offset)
push_offset(buf, value, byte_width) == write_integer(buf, value, byte_width)

(***************************************************************************)
(* Strings.                                                                *)
(***************************************************************************)
RECURSIVE StrCmp(_, _)
\* str::cmp: byte-lexicographic
StrCmp(a, b) ==
  IF Len(a) = 0 THEN (IF Len(b) = 0 THEN "Equal" ELSE "Less")
  ELSE IF Len(b) = 0 THEN "Greater"
  ELSE IF a[1] < b[1] THEN "Less"
  ELSE IF a[1] > b[1] THEN "Greater"
  ELSE StrCmp(Tail(a), Tail(b))

InRange(b, lo, hi) == lo <= b /\ b <= hi
\* s[i] is a UTF-8 continuation byte
Cont(s, i) == 1 <= i /\ i <= Len(s) /\ InRange(s[i], 128, 191)

\* the length of the sequence a lead byte opens, 0 for a byte that opens none
Utf8Width(b) ==
  IF b <= 127 THEN 1
  ELSE IF InRange(b, 194, 223) THEN 2
  ELSE IF InRange(b, 224, 239) THEN 3
  ELSE IF InRange(b, 240, 244) THEN 4
  ELSE 0

\* the sequence opened at i is well formed
Utf8SeqOk(s, i) ==
  LET b == s[i]
      w == Utf8Width(b)
  IN /\ w > 0
     /\ \A k \in 1..(w - 1) : Cont(s, i + k)
     /\ (b = 224 => s[i + 1] >= 160)
     /\ (b = 237 => s[i + 1] <= 159)
     /\ (b = 240 => s[i + 1] >= 144)
     /\ (b = 244 => s[i + 1] <= 143)

\* the continuation byte at i belongs to a sequence opened at most 3 bytes before
Utf8Covered(s, i) ==
  \E k \in 1..3 :
    /\ i - k >= 1
    /\ ~Cont(s, i - k)
    /\ Utf8Width(s[i - k]) > k
    /\ \A j \in 1..(k - 1) : Cont(s, i - j)

\* std::str::from_utf8 accepts s
IsUtf8(s) ==
  \A i \in 1..Len(s) :
    IF Cont(s, i) THEN Utf8Covered(s, i) ELSE Utf8SeqOk(s, i)

(***************************************************************************)
(* metadata.rs: build_metadata                                             *)
(***************************************************************************)
\* string_iter.collect::<BTreeSet<&str>>(): the distinct strings, iterated in
\* ascending order
BTreeCollect(string_iter) ==
  LET S == {string_iter[i] : i \in 1..Len(string_iter)}
      before == [s \in S |-> Cardinality({t \in S : StrCmp(t, s) = "Less"})]
  IN [i \in 1..Cardinality(S) |-> CHOOSE s \in S : before[s] = i - 1]

RECURSIVE SumLenRange(_, _, _)
\* strs[lo..=hi].iter().map(|s| s.len()).sum()
SumLenRange(strs, lo, hi) ==
  IF lo > hi THEN 0
  ELSE IF lo = hi THEN Len(strs[lo])
  ELSE LET mid == (lo + hi) \div 2
       IN SumLenRange(strs, lo, mid) + SumLenRange(strs, mid + 1, hi)

RECURSIVE FlattenRange(_, _, _)
\* the concatenation of ss[lo], .., ss[hi]
FlattenRange(ss, lo, hi) ==
  IF lo > hi THEN <<>>
  ELSE IF lo = hi THEN ss[lo]
  ELSE LET mid == (lo + hi) \div 2
       IN FlattenRange(ss, lo, mid) \o FlattenRange(ss, mid + 1, hi)

Flatten(ss) == FlattenRange(ss, 1, Len(ss))

\* the push_offset closure of build_metadata
md_push_offset(output, offset, offset_size) == output \o ToLE(offset, offset_size)

\* the offsets loop: the running sum after each string
md_offsets(output, strs, offset_size) ==
  output \o Flatten([i \in 1..Len(strs) |->
                      md_push_offset(<<>>, SumLenRange(strs, 1, i), offset_size)])

\* header = version | (sorted_strings << 4) | (offset_size_minus_one << 6), in u8
md_header(offset_size) == BitOr(BitOr(1, Shl(1, 4)), Shl(offset_size - 1, 6))

build_metadata(string_iter) ==
  LET strs == BTreeCollect(string_iter)
      total_buffer_size == SumLenRange(strs, 1, Len(strs))
      offset_size == determine_byte_width(total_buffer_size)
      o1 == <<md_header(offset_size)>>
      o2 == md_push_offset(o1, Len(strs), offset_size)
      o3 == md_push_offset(o2, 0, offset_size)
      o4 == md_offsets(o3, strs, offset_size)
  IN o4 \o Flatten(strs)

(***************************************************************************)
(* metadata.rs: MetadataRef                                                *)
(***************************************************************************)
NoView == [ok |-> FALSE]

\* read_integer: None of the widths here exceed what the slice holds when
\* ReadOk holds; the result is the signed value, and "as usize" of a negative
\* value n is 2^64 + n, which is kept as n.
ReadOk(data, offset, byte_width) ==
  byte_width \in {1, 2, 4, 8} /\ SliceOk(data, offset, offset + byte_width)
read_integer(data, offset, byte_width) ==
  SignedLE(Slice(data, offset, offset + byte_width))

MetadataRef_new(data) ==
  IF Len(data) = 0 THEN NoView
  ELSE LET header == data[1]
           offset_size == ((header \div 64) % 4) + 1
       IN IF ~ReadOk(data, 1, offset_size) THEN NoView
          ELSE LET dictionary_len == read_integer(data, 1, offset_size)
                   offsets_start == 1 + offset_size
               IN IF dictionary_len < -1 THEN NoView
                  \* usize::MAX + 1: panics with overflow checks, else wraps to 0
                  ELSE IF dictionary_len = -1
                    THEN IF overflow_checks \/ offsets_start > Len(data) THEN NoView
                         ELSE [ok |-> TRUE, header |-> header, offset_size |-> offset_size,
                               dictionary_len |-> dictionary_len, offsets |-> <<>>,
                               data |-> Drop(data, offsets_start)]
                  ELSE IF dictionary_len + 1 > Len(data) THEN NoView
                  ELSE LET offsets_end == offsets_start + offset_size * (dictionary_len + 1)
                       IN IF ~SliceOk(data, offsets_start, offsets_end) THEN NoView
                          ELSE [ok |-> TRUE, header |-> header, offset_size |-> offset_size,
                                dictionary_len |-> dictionary_len,
                                offsets |-> Slice(data, offsets_start, offsets_end),
                                data |-> Drop(data, offsets_end)]

version(m) == m.header % 16
sorted_strings(m) == (m.header \div 16) % 2 # 0
dictionary_len_from_data(m) == Len(m.data)

dictionary_len(m) == m.dictionary_len

\* id >= self.dictionary_len on usize: a negative dictionary_len stands for 2^64 + n
IdOutOfRange(m, id) == m.dictionary_len >= 0 /\ id >= m.dictionary_len

get_string(m, id) ==
  IF IdOutOfRange(m, id) THEN [tag |-> "none", str |-> <<>>]
  ELSE IF ~ReadOk(m.offsets, (id + 1) * m.offset_size, m.offset_size)
    THEN [tag |-> "panic", str |-> <<>>]
  ELSE LET offset == read_integer(m.offsets, id * m.offset_size, m.offset_size)
           next_offset == read_integer(m.offsets, (id + 1) * m.offset_size, m.offset_size)
       IN IF offset < 0 \/ next_offset < 0 \/ ~SliceOk(m.data, offset, next_offset)
            THEN [tag |-> "panic", str |-> <<>>]
          ELSE LET data == Slice(m.data, offset, next_offset)
               IN IF IsUtf8(data) THEN [tag |-> "some", str |-> data]
                  ELSE [tag |-> "panic", str |-> <<>>]

(***************************************************************************)
(* metadata.rs: MetadataRef::find_string, one loop iteration at a time.    *)
(* The locals are left and right; wrapped records that right holds the     *)
(* result of a wrapped subtraction (a value of 2^63 or more), oob that     *)
(* get_string was called with an index outside 0..dictionary_len.          *)
(***************************************************************************)
NoFind == [key |-> <<>>, left |-> 0, right |-> 0, wrapped |-> FALSE,
           status |-> "idle", idx |-> 0, oob |-> FALSE]

FindDone(f, st, i, o) == [f EXCEPT !.status = st, !.idx = i, !.oob = o]

find_begin(m, value) ==
  LET f == [NoFind EXCEPT !.key = value] IN
  IF ~sorted_strings(m) THEN FindDone(f, "panic", 0, FALSE)
  ELSE LET dict_size == dictionary_len(m) IN
    IF dict_size = 0 THEN FindDone(f, "none", 0, FALSE)
    ELSE IF dict_size < 0
      THEN [f EXCEPT !.status = "loop", !.wrapped = TRUE]
    ELSE [f EXCEPT !.status = "loop", !.right = dict_size - 1]

\* the arm Ordering::Greater => right = mid - 1
find_greater(f, mid) ==
  IF mid = 0
  THEN IF overflow_checks THEN FindDone(f, "panic", 0, f.oob)
       ELSE [f EXCEPT !.wrapped = TRUE]
  ELSE [f EXCEPT !.right = mid - 1]

\* the arm Ordering::Less => left = mid + 1
find_less(f, mid) == [f EXCEPT !.left = mid + 1]

find_step(m, f) ==
  IF ~(f.wrapped \/ f.left <= f.right) THEN FindDone(f, "none", 0, f.oob)
  \* right >= 2^63: mid is past every dictionary, get_string(mid).unwrap() panics
  ELSE IF f.wrapped THEN FindDone(f, "panic", 0, TRUE)
  ELSE LET mid == f.left + ((f.right - f.left) \div 2)
           mid_str == get_string(m, mid)
       IN IF mid_str.tag # "some" THEN FindDone(f, "panic", 0, mid_str.tag = "none")
          ELSE LET c == StrCmp(mid_str.str, f.key) IN
            IF c = "Less" THEN find_less(f, mid)
            ELSE IF c = "Greater" THEN find_greater(f, mid)
            ELSE FindDone(f, "some", mid, f.oob)

RECURSIVE find_run(_, _)
find_run(m, f) == IF f.status # "loop" THEN f ELSE find_run(m, find_step(m, f))

\* the whole call
find_string(m, value) == find_run(m, find_begin(m, value))

(***************************************************************************)
(* Inputs of the metadata specification.                                   *)
(***************************************************************************)
BaseStrings == {<<>>, <<97>>, <<98>>, <<97, 98>>}
LookupKeys == BaseStrings \cup {<<99>>, <<65>>}

\* the k one-byte strings with bytes 0 .. k-1
OneByte(k) == [i \in 1..k |-> <<i - 1>>]

SeqsUpTo(S, n) == UNION {[1..k -> S] : k \in 0..n}

\* small inputs in every order with duplicates, and dictionaries around the
\* one-byte limit of the dictionary size and of the offsets
MetaInputs ==
  SeqsUpTo(BaseStrings, MaxInputs)
    \cup {OneByte(I8_MAX), <<<<>>>> \o OneByte(I8_MAX), OneByte(I8_MAX + 1)}

NoOutput == [metadata |-> [keys |-> <<>>, values |-> <<>>], values |-> <<>>]

ArrowIdle ==
  array = <<>> /\ values = <<>> /\ struct_array = NoOutput /\ long_len = <<>>

Idle ==
  /\ ArrowIdle
  /\ metadata = <<>> /\ metadata_ref = NoView /\ find = NoFind
  /\ buffer = <<>> /\ header_offset = 0 /\ num_elements = 0
  /\ field_offset_width = 0 /\ field_id_and_offsets = <<>>
  /\ tmp_buffer = <<>> /\ hist = <<>> /\ result = "none"

(***************************************************************************)
(* The metadata specification: build, open, look strings up.               *)
(***************************************************************************)
MetaInit ==
  /\ overflow_checks \in BOOLEAN
  /\ pc = "input"
  /\ strings \in MetaInputs
  /\ Idle

BuildMetadata ==
  /\ pc = "input"
  /\ metadata' = build_metadata(strings)
  /\ pc' = "built"
  /\ UNCHANGED <<array, values, struct_array, long_len, overflow_checks, strings, metadata_ref, find, buffer, header_offset,
                 num_elements, field_offset_width, field_id_and_offsets, tmp_buffer,
                 hist, result>>

MetadataRefNew ==
  /\ pc = "built"
  /\ metadata_ref' = MetadataRef_new(metadata)
  /\ pc' = IF metadata_ref'.ok THEN "open" ELSE "panicked"
  /\ result' = IF metadata_ref'.ok THEN "ok" ELSE "panic"
  /\ UNCHANGED <<array, values, struct_array, long_len, overflow_checks, strings, metadata, find, buffer, header_offset,
                 num_elements, field_offset_width, field_id_and_offsets, tmp_buffer, hist>>

FindPc(f) ==
  IF f.status = "loop" THEN "finding"
  ELSE IF f.status = "panic" THEN "panicked" ELSE "returned"

FindStringBegin ==
  /\ pc = "open"
  /\ \E value \in LookupKeys : find' = find_begin(metadata_ref, value)
  /\ pc' = FindPc(find')
  /\ result' = find'.status
  /\ UNCHANGED <<array, values, struct_array, long_len, overflow_checks, strings, metadata, metadata_ref, buffer, header_offset,
                 num_elements, field_offset_width, field_id_and_offsets, tmp_buffer, hist>>

FindStringStep ==
  /\ pc = "finding"
  /\ find' = find_step(metadata_ref, find)
  /\ pc' = FindPc(find')
  /\ result' = find'.status
  /\ UNCHANGED <<array, values, struct_array, long_len, overflow_checks, strings, metadata, metadata_ref, buffer, header_offset,
                 num_elements, field_offset_width, field_id_and_offsets, tmp_buffer, hist>>

\* the caller takes the Option and may look another string up
FindStringReturn ==
  /\ pc = "returned"
  /\ pc' = "open"
  /\ find' = NoFind
  /\ UNCHANGED <<array, values, struct_array, long_len, overflow_checks, strings, metadata, metadata_ref, buffer, header_offset,
                 num_elements, field_offset_width, field_id_and_offsets, tmp_buffer,
                 hist, result>>

MetaNext ==
  \/ BuildMetadata
  \/ MetadataRefNew
  \/ FindStringBegin
  \/ FindStringStep
  \/ FindStringReturn

SpecMeta == MetaInit /\ [][MetaNext]_vars

(***************************************************************************)
(* What build_metadata is to produce: the distinct inputs in ascending     *)
(* byte order.                                                             *)
(***************************************************************************)
InputSet(string_iter) == {string_iter[i] : i \in 1..Len(string_iter)}
Rank(s, S) == Cardinality({t \in S : StrCmp(t, s) = "Less"})
IsMember(s) == s \in InputSet(strings)

\* C1: for any finite multiset of input strings in any order, the view opened
\* over build_metadata's output has dictionary_len = number of distinct inputs,
\* get_string(i) = the i-th smallest distinct input for i < dictionary_len and
\* None at dictionary_len, and find_string(s) = Some(rank of s) for every input s.
C1_ViewMatchesDistinctSortedInputs ==
  pc = "built" =>
    LET S == InputSet(strings)
        m == MetadataRef_new(metadata)
    IN /\ m.ok
       /\ dictionary_len(m) = Cardinality(S)
       /\ \A s \in S :
            /\ get_string(m, Rank(s, S)) = [tag |-> "some", str |-> s]
            /\ LET f == find_string(m, s)
               IN f.status = "some" /\ f.idx = Rank(s, S)
       /\ get_string(m, Cardinality(S)).tag = "none"

\* C2: for every built dictionary (the empty one included) and every string
\* that is not a member, wherever it sorts, find_string returns None: it never
\* panics, never underflows an index, and never calls get_string with an index
\* outside 0..dictionary_len.
C2_FindOfNonMemberReturnsNone ==
  (find.status \in {"some", "none", "panic"} /\ ~IsMember(find.key)) =>
    (find.status = "none" /\ ~find.wrapped /\ ~find.oob)

(***************************************************************************)
(* Wide integers: a value is [neg, mag], mag its magnitude in              *)
(* little-endian base-256 digits (8 digits for i64, 16 for i128); zero has *)
(* neg = FALSE.                                                            *)
(***************************************************************************)
MagOf(k, n) == ToLE(k, n)
MagPow2(k, n) == [i \in 1..n |-> IF i = (k \div 8) + 1 THEN 2 ^ (k % 8) ELSE 0]
MagIsZero(a) == \A i \in 1..Len(a) : a[i] = 0

MagCmp(a, b) ==
  LET D == {i \in 1..Len(a) : a[i] # b[i]} IN
  IF D = {} THEN "Equal"
  ELSE LET i == CHOOSE j \in D : \A k \in D : k <= j
       IN IF a[i] < b[i] THEN "Less" ELSE "Greater"

\* a + 1 modulo 256^Len(a)
MagInc(a) ==
  LET N == {i \in 1..Len(a) : a[i] # 255} IN
  IF N = {} THEN [i \in 1..Len(a) |-> 0]
  ELSE LET j == CHOOSE i \in N : \A k \in N : i <= k
       IN [i \in 1..Len(a) |-> IF i < j THEN 0 ELSE IF i = j THEN a[i] + 1 ELSE a[i]]

\* a - 1 modulo 256^Len(a)
MagDec(a) ==
  LET N == {i \in 1..Len(a) : a[i] # 0} IN
  IF N = {} THEN [i \in 1..Len(a) |-> 255]
  ELSE LET j == CHOOSE i \in N : \A k \in N : i <= k
       IN [i \in 1..Len(a) |-> IF i < j THEN 255 ELSE IF i = j THEN a[i] - 1 ELSE a[i]]

MagNot(a) == [i \in 1..Len(a) |-> 255 - a[i]]

Pos(mag) == [neg |-> FALSE, mag |-> mag]
Neg(mag) == [neg |-> ~MagIsZero(mag), mag |-> mag]

\* iN::to_le_bytes: two's complement in Len(v.mag) bytes
to_le_bytes(v) == IF v.neg THEN MagInc(MagNot(v.mag)) ELSE v.mag

\* iN::from_le_bytes
from_le_bytes(bytes) ==
  IF bytes[Len(bytes)] >= 128
  THEN [neg |-> TRUE, mag |-> MagInc(MagNot(bytes))]
  ELSE [neg |-> FALSE, mag |-> bytes]

\* value as iM for M narrower than the type of value, then to_le_bytes
truncate_le_bytes(v, width) == Take(to_le_bytes(v), width)

\* a < b on signed values of the same type
SignedLess(a, b) ==
  IF a.neg /\ ~b.neg THEN TRUE
  ELSE IF ~a.neg /\ b.neg THEN FALSE
  ELSE IF a.neg THEN MagCmp(a.mag, b.mag) = "Greater"
  ELSE MagCmp(a.mag, b.mag) = "Less"

\* iM::MAX as iN, iM::MIN as iN, in n bytes
SignedMax(bits, n) == Pos(MagDec(MagPow2(bits - 1, n)))
SignedMin(bits, n) == Neg(MagPow2(bits - 1, n))

\* the value is in the range of a signed integer of that many bits
FitsSigned(v, bits) ==
  /\ ~SignedLess(v, SignedMin(bits, Len(v.mag)))
  /\ ~SignedLess(SignedMax(bits, Len(v.mag)), v)

\* the same value in a wider type
Widen(v, n) == [neg |-> v.neg, mag |-> v.mag \o [i \in 1..(n - Len(v.mag)) |-> 0]]

(***************************************************************************)
(* f64: [sign, exponent, fraction], the 52 fraction bits as six bytes and  *)
(* a top nibble, little-endian.                                            *)
(***************************************************************************)
f64_to_le_bytes(x) ==
  Take(x.fraction, 6)
    \o <<(x.exponent % 16) * 16 + x.fraction[7], x.sign * 128 + (x.exponent \div 16)>>

f64_from_le_bytes(bytes) ==
  [sign |-> bytes[8] \div 128,
   exponent |-> (bytes[8] % 128) * 16 + (bytes[7] \div 16),
   fraction |-> Take(bytes, 6) \o <<bytes[7] % 16>>]

(***************************************************************************)
(* variant/mod.rs                                                          *)
(***************************************************************************)
BasicType_Primitive == 0
BasicType_ShortString == 1
BasicType_Object == 2
BasicType_Array == 3

PrimitiveTypeId_Null == 0
PrimitiveTypeId_BoolTrue == 1
PrimitiveTypeId_BoolFalse == 2
PrimitiveTypeId_Int64 == 6
PrimitiveTypeId_Float64 == 7
PrimitiveTypeId_Decimal4 == 8
PrimitiveTypeId_Decimal8 == 9
PrimitiveTypeId_Decimal16 == 10
PrimitiveTypeId_String == 16
PrimitiveTypeId_Last == 18

\* TryFrom<u8> for PrimitiveTypeId
PrimitiveTypeId_valid(value) == value <= PrimitiveTypeId_Last

(***************************************************************************)
(* variant/write.rs: the primitive writers                                 *)
(***************************************************************************)
primitive_header_unshifted(primitive_type_id) ==
  LET basic_type == 0 IN BitOr(basic_type, primitive_type_id)

\* basic_type | (primitive_type_id as u8) << 2
primitive_header(primitive_type_id) ==
  LET basic_type == 0 IN BitOr(basic_type, Shl(primitive_type_id, 2))

write_bool(buf, value) ==
  buf \o <<IF value THEN primitive_header(PrimitiveTypeId_BoolTrue)
           ELSE primitive_header(PrimitiveTypeId_BoolFalse)>>

write_i64(buf, value) ==
  buf \o <<primitive_header(PrimitiveTypeId_Int64)>> \o to_le_bytes(value)

write_f64(buf, value) ==
  buf \o <<primitive_header(PrimitiveTypeId_Float64)>> \o f64_to_le_bytes(value)

\* value < i32::MAX as i128
decimal_below_i32_max(value) == SignedLess(value, SignedMax(32, 16))
\* value < i64::MAX as i128
decimal_below_i64_max(value) == SignedLess(value, SignedMax(64, 16))

\* the scale check is made by the caller of this operator (WriteDecimal)
write_decimal(buf, value, scale) ==
  IF decimal_below_i32_max(value)
  THEN buf \o <<primitive_header(PrimitiveTypeId_Decimal4), scale>>
           \o truncate_le_bytes(value, 4)
  ELSE IF decimal_below_i64_max(value)
  THEN buf \o <<primitive_header(PrimitiveTypeId_Decimal8), scale>>
           \o truncate_le_bytes(value, 8)
  ELSE buf \o <<primitive_header(PrimitiveTypeId_Decimal16), scale>>
           \o to_le_bytes(value)

\* (value.len() as i32).to_le_bytes(), then the bytes
write_string(buf, value) ==
  buf \o <<primitive_header(PrimitiveTypeId_String)>> \o ToLE(Len(value), 4) \o value

(***************************************************************************)
(* values/read.rs: VariantRef.  A view is the byte slice; every accessor   *)
(* returns [tag, val], tag "ok", "err" (a returned Err) or "panic".        *)
(***************************************************************************)
Ok(v) == [tag |-> "ok", val |-> v]
Err == [tag |-> "err", val |-> <<>>]
Panic == [tag |-> "panic", val |-> <<>>]

VariantRef_try_new(data) == IF Len(data) = 0 THEN Err ELSE Ok(data)

\* (header & 0b11).try_into().expect(..)
basic_type(data) == IF Len(data) = 0 THEN Panic ELSE Ok(data[1] % 4)

\* (header >> 2).try_into().expect(..)
primitive_type_id(data) ==
  IF Len(data) = 0 THEN Panic
  ELSE IF PrimitiveTypeId_valid(data[1] \div 4) THEN Ok(data[1] \div 4)
  ELSE Panic

get_bool(data) ==
  LET id == primitive_type_id(data) IN
  IF id.tag # "ok" THEN Panic
  ELSE IF id.val = PrimitiveTypeId_BoolTrue THEN Ok(TRUE)
  ELSE IF id.val = PrimitiveTypeId_BoolFalse THEN Ok(FALSE)
  ELSE Panic

get_i64(data) ==
  LET id == primitive_type_id(data) IN
  IF id.tag # "ok" \/ id.val # PrimitiveTypeId_Int64 THEN Panic
  ELSE IF ~SliceOk(data, 1, 9) THEN Panic
  ELSE Ok(from_le_bytes(Slice(data, 1, 9)))

get_i128(data) ==
  LET id == primitive_type_id(data) IN
  IF id.tag # "ok" \/ id.val # PrimitiveTypeId_Decimal16 THEN Panic
  ELSE IF ~SliceOk(data, 1, 17) THEN Panic
  ELSE Ok(from_le_bytes(Slice(data, 1, 17)))

get_f64(data) ==
  LET id == primitive_type_id(data) IN
  IF id.tag # "ok" \/ id.val # PrimitiveTypeId_Float64 THEN Panic
  ELSE IF ~SliceOk(data, 1, 9) THEN Panic
  ELSE Ok(f64_from_le_bytes(Slice(data, 1, 9)))

\* VariantRef::get_string
variant_get_string(data) ==
  LET id == primitive_type_id(data) IN
  IF id.tag # "ok" \/ id.val # PrimitiveTypeId_String THEN Panic
  ELSE IF ~SliceOk(data, 1, 5) THEN Panic
  ELSE LET size == SignedLE(Slice(data, 1, 5)) IN
    \* a negative i32 as usize is 2^64 + size: the end is past every buffer
    IF size < 0 \/ size > Len(data) \/ ~SliceOk(data, 5, 5 + size) THEN Panic
    ELSE IF IsUtf8(Slice(data, 5, 5 + size)) THEN Ok(Slice(data, 5, 5 + size))
    ELSE Panic

(***************************************************************************)
(* The primitive specification: a caller writes up to MaxWrites values     *)
(* into one buffer; hist records where each value starts and what it was.  *)
(***************************************************************************)
I64Values ==
  {Pos(MagOf(0, 8)), Pos(MagOf(100, 8)), Neg(MagOf(100, 8)), Neg(MagOf(1, 8)),
   Neg(MagOf(42, 8)), SignedMax(64, 8), SignedMin(64, 8)}

F64Zero == [sign |-> 0, exponent |-> 0, fraction |-> <<0, 0, 0, 0, 0, 0, 0>>]
F64Values ==
  {F64Zero,
   [F64Zero EXCEPT !.sign = 1],
   [F64Zero EXCEPT !.exponent = 1027, !.fraction = <<0, 0, 0, 0, 0, 0, 7>>],
   [F64Zero EXCEPT !.sign = 1, !.exponent = 1028, !.fraction = <<21, 205, 91, 7, 0, 128, 6>>],
   [F64Zero EXCEPT !.exponent = 2047],
   [F64Zero EXCEPT !.exponent = 2047, !.fraction = <<1, 0, 0, 0, 0, 0, 8>>],
   [F64Zero EXCEPT !.fraction = <<1, 0, 0, 0, 0, 0, 0>>]}

StrValues == {<<>>, <<97>>, <<97, 98>>, <<195, 169>>}

I32MaxWide == SignedMax(32, 16)
I32MinWide == SignedMin(32, 16)
I64MaxWide == SignedMax(64, 16)
I64MinWide == SignedMin(64, 16)

I128Values ==
  {Pos(MagOf(0, 16)), Pos(MagOf(1, 16)), Neg(MagOf(1, 16)), Neg(MagOf(42, 16)),
   Pos(MagDec(I32MaxWide.mag)), I32MaxWide, Pos(MagInc(I32MaxWide.mag)),
   I32MinWide, Neg(MagInc(I32MinWide.mag)),
   Pos(MagDec(I64MaxWide.mag)), I64MaxWide, Pos(MagInc(I64MaxWide.mag)),
   I64MinWide, Neg(MagInc(I64MinWide.mag)),
   SignedMax(128, 16), SignedMin(128, 16)}

Scales == {0, 2, MAX_SCALE, MAX_SCALE + 1}

PrimInit ==
  /\ overflow_checks \in BOOLEAN
  /\ pc = "prim"
  /\ strings = <<>>
  /\ Idle

Wrote(kind, value, scale) ==
  hist' = Append(hist, [kind |-> kind, off |-> Len(buffer), value |-> value, scale |-> scale])

PrimFrame ==
  UNCHANGED <<array, values, struct_array, long_len, overflow_checks, strings, metadata, metadata_ref, find, header_offset,
              num_elements, field_offset_width, field_id_and_offsets, tmp_buffer>>

CanWrite == pc = "prim" /\ Len(hist) < MaxWrites

WriteBool ==
  /\ CanWrite
  /\ \E value \in BOOLEAN :
       /\ buffer' = write_bool(buffer, value)
       /\ Wrote("bool", value, 0)
  /\ result' = "ok"
  /\ UNCHANGED pc
  /\ PrimFrame

WriteI64 ==
  /\ CanWrite
  /\ \E value \in I64Values :
       /\ buffer' = write_i64(buffer, value)
       /\ Wrote("i64", value, 0)
  /\ result' = "ok"
  /\ UNCHANGED pc
  /\ PrimFrame

WriteF64 ==
  /\ CanWrite
  /\ \E value \in F64Values :
       /\ buffer' = write_f64(buffer, value)
       /\ Wrote("f64", value, 0)
  /\ result' = "ok"
  /\ UNCHANGED pc
  /\ PrimFrame

WriteString ==
  /\ CanWrite
  /\ \E value \in StrValues :
       /\ buffer' = write_string(buffer, value)
       /\ Wrote("string", value, 0)
  /\ result' = "ok"
  /\ UNCHANGED pc
  /\ PrimFrame

\* scale > 38 panics before anything is written
WriteDecimal ==
  /\ CanWrite
  /\ \E value \in I128Values, scale \in Scales :
       IF scale > MAX_SCALE
       THEN /\ pc' = "panicked"
            /\ result' = "panic"
            /\ UNCHANGED <<buffer, hist>>
       ELSE /\ buffer' = write_decimal(buffer, value, scale)
            /\ Wrote("decimal", value, scale)
            /\ result' = "ok"
            /\ UNCHANGED pc
  /\ PrimFrame

\* buffer.clear()
ClearBuffer ==
  /\ pc = "prim"
  /\ buffer # <<>>
  /\ buffer' = <<>>
  /\ hist' = <<>>
  /\ result' = "none"
  /\ UNCHANGED pc
  /\ PrimFrame

PrimNext ==
  \/ WriteBool
  \/ WriteI64
  \/ WriteF64
  \/ WriteString
  \/ WriteDecimal
  \/ ClearBuffer

SpecPrim == PrimInit /\ [][PrimNext]_vars

\* the value written by the i-th call, as a reader sees it
Written(i) == Drop(buffer, hist[i].off)

ExpectedId(h) ==
  IF h.kind = "bool"
  THEN (IF h.value THEN PrimitiveTypeId_BoolTrue ELSE PrimitiveTypeId_BoolFalse)
  ELSE IF h.kind = "i64" THEN PrimitiveTypeId_Int64
  ELSE IF h.kind = "f64" THEN PrimitiveTypeId_Float64
  ELSE PrimitiveTypeId_String

Extracted(h, data) ==
  IF h.kind = "bool" THEN get_bool(data)
  ELSE IF h.kind = "i64" THEN get_i64(data)
  ELSE IF h.kind = "f64" THEN get_f64(data)
  ELSE variant_get_string(data)

C8_Decimal16RoundTrip ==
  pc = "prim" =>
    \A i \in 1..Len(hist) :
      (hist[i].kind = "decimal"
         /\ buffer[hist[i].off + 1] = primitive_header(PrimitiveTypeId_Decimal16)) =>
        /\ primitive_type_id(Written(i)) = Ok(PrimitiveTypeId_Decimal16)
        /\ get_i128(Written(i)) = Ok(hist[i].value)

\* the width of the coefficient that follows a decimal header and its scale
CoefficientWidth(id) ==
  IF id = PrimitiveTypeId_Decimal4 THEN 4
  ELSE IF id = PrimitiveTypeId_Decimal8 THEN 8 ELSE 16

\* C9: for every 128-bit signed value, write_decimal emits Decimal4 iff the
\* value fits in a signed 32-bit integer, otherwise Decimal8 iff it fits in a
\* signed 64-bit integer, otherwise Decimal16, and the coefficient bytes
\* written represent the value without truncation.
C9_DecimalNarrowestWidth ==
  pc = "prim" =>
    \A i \in 1..Len(hist) :
      hist[i].kind = "decimal" =>
        LET v == hist[i].value
            id == Written(i)[1] \div 4
            coefficient == Slice(Written(i), 2, 2 + CoefficientWidth(id))
        IN /\ id = (IF FitsSigned(v, 32) THEN PrimitiveTypeId_Decimal4
                    ELSE IF FitsSigned(v, 64) THEN PrimitiveTypeId_Decimal8
                    ELSE PrimitiveTypeId_Decimal16)
           /\ Written(i)[2] = hist[i].scale
           /\ Widen(from_le_bytes(coefficient), 16) = v

(***************************************************************************)
(* variant/write.rs: ArrayBuilder                                          *)
(***************************************************************************)
is_large_of(n) == IF n > I8_MAX THEN 1 ELSE 0
num_elements_width_of(n) == IF is_large_of(n) = 1 THEN 4 ELSE 1

\* header = is_large << 2 | (field_offset_width - 1); header << 2 | Array
array_header(n, offset_width) ==
  BitOr(Shl(BitOr(Shl(is_large_of(n), 2), offset_width - 1), 2), BasicType_Array)

\* ArrayBuilder::new: the buffer after construction
ArrayBuilder_new(buf, n) ==
  LET offset_width == get_offset_size(n)
      b1 == buf \o <<array_header(n, offset_width)>>
      b2 == push_offset(b1, n, num_elements_width_of(n))
  IN push_offset(b2, 0, offset_width)

\* ArrayBuilder::append_value: [buffer, tmp_buffer] after the call
ArrayBuilder_append_value(buf, tmp, offset_width, value) ==
  LET t == tmp \o value
  IN [buffer |-> push_offset(buf, Len(t), offset_width), tmp_buffer |-> t]

ArrayBuilder_finish(buf, tmp) == buf \o tmp

(***************************************************************************)
(* variant/write.rs: ObjectBuilder                                         *)
(***************************************************************************)
\* header = is_large << 4 | (field_id_size - 1) << 2; header << 2 | Object
object_header(n) ==
  LET field_id_size == get_offset_size(n)
      header == BitOr(Shl(is_large_of(n), 4), Shl(field_id_size - 1, 2))
  IN BitOr(Shl(header, 2), BasicType_Object)

\* ObjectBuilder::with_capacity: the buffer after construction
ObjectBuilder_with_capacity(buf, n) ==
  push_offset(buf \o <<object_header(n)>>, n, num_elements_width_of(n))

ObjectBuilder_append_value_late(m, pairs, tmp, field_name, value) ==
  LET f == find_string(m, field_name) IN
  IF f.status = "panic"
  THEN [tag |-> "panic", field_id_and_offsets |-> pairs, tmp_buffer |-> tmp]
  ELSE IF f.status = "none"
  THEN [tag |-> "err", field_id_and_offsets |-> pairs, tmp_buffer |-> tmp]
  ELSE [tag |-> "ok",
        field_id_and_offsets |-> Append(pairs, <<f.idx, Len(tmp \o value)>>),
        tmp_buffer |-> tmp \o value]

\* ObjectBuilder::append with the appender of append_value:
\* [tag, field_id_and_offsets, tmp_buffer] after the call
ObjectBuilder_append_value(m, pairs, tmp, field_name, value) ==
  LET f == find_string(m, field_name) IN
  IF f.status = "panic"
  THEN [tag |-> "panic", field_id_and_offsets |-> pairs, tmp_buffer |-> tmp]
  ELSE IF f.status = "none"
  THEN [tag |-> "err", field_id_and_offsets |-> pairs, tmp_buffer |-> tmp]
  ELSE [tag |-> "ok",
        field_id_and_offsets |-> Append(pairs, <<f.idx, Len(tmp)>>),
        tmp_buffer |-> tmp \o value]

sort_by_field_id_skipped(pairs) == pairs

\* sort_unstable_by_key(|(field_id, _)| field_id); pairs with equal ids keep
\* their order here, the caller of the model never appends a key twice
sort_by_field_id(pairs) ==
  LET n == Len(pairs)
      before(i) == Cardinality({j \in 1..n :
                      pairs[j][1] < pairs[i][1] \/ (pairs[j][1] = pairs[i][1] /\ j < i)})
  IN [k \in 1..n |-> pairs[CHOOSE i \in 1..n : before(i) = k - 1]]

\* .map(|(field_id, _)| field_id).max().unwrap_or_default()
max_field_id(pairs) ==
  IF Len(pairs) = 0 THEN 0
  ELSE LET ids == {pairs[i][1] : i \in 1..Len(pairs)}
       IN CHOOSE x \in ids : \A y \in ids : y <= x

\* the width finish() writes the field ids at
finish_field_id_width(pairs) == get_offset_size(max_field_id(pairs))

\* buffer[header_offset] = current_header | (offset_width - 1) << 2
patch_header_at_start(buf, at, offset_width) ==
  [buf EXCEPT ![1] = BitOr(buf[1], Shl(offset_width - 1, 2))]

patch_header(buf, at, offset_width) ==
  [buf EXCEPT ![at + 1] = BitOr(buf[at + 1], Shl(offset_width - 1, 2))]

\* ObjectBuilder::finish: the buffer after the call
ObjectBuilder_finish(buf, at, pairs, tmp) ==
  LET final_offset == Len(tmp)
      offset_width == get_offset_size(final_offset)
      field_id_width == finish_field_id_width(pairs)
      patched == patch_header(buf, at, offset_width)
      sorted == sort_by_field_id(pairs)
      ids == Flatten([i \in 1..Len(sorted) |-> push_offset(<<>>, sorted[i][1], field_id_width)])
      offs == Flatten([i \in 1..Len(sorted) |-> push_offset(<<>>, sorted[i][2], offset_width)])
  IN push_offset(patched \o ids \o offs, final_offset, offset_width) \o tmp

(***************************************************************************)
(* values/read.rs: ObjectRef and ArrayRef.  A count read as a negative     *)
(* i8 or i32 is, as usize, 2^64 + n; it is kept as n.                      *)
(***************************************************************************)
NoRef(tag) == [tag |-> tag]

\* the widths the match arms of get_field_id and get_offset decode; any other
\* width reaches unreachable!()
WidthOk(w) == w \in {1, 2, 4, 8}

\* the element count after the header byte: [ok, len, rest]
read_len(data, is_large) ==
  LET w == IF is_large THEN 4 ELSE 1 IN
  IF ~SliceOk(data, 0, w) THEN [ok |-> FALSE]
  ELSE [ok |-> TRUE, len |-> SignedLE(Take(data, w)), rest |-> Drop(data, w)]

\* len * width regions can be cut from a slice of that length
RegionOk(len, width, avail) == len >= 0 /\ len <= avail /\ len * width <= avail

ObjectRef_try_new(v) ==
  IF Len(v) = 0 THEN NoRef("panic")
  ELSE IF v[1] % 4 # BasicType_Object THEN NoRef("err")
  ELSE LET header == Shr(v[1], 2)
           offset_width == (header % 4) + 1
           field_id_width == (Shr(header, 2) % 4) + 1
           is_large == Shr(header, 4) % 2
           l == read_len(Drop(v, 1), is_large = 1)
       IN IF ~l.ok THEN NoRef("panic")
          ELSE IF ~RegionOk(l.len, field_id_width, Len(l.rest)) THEN NoRef("panic")
          ELSE LET field_id_len == l.len * field_id_width
                   d2 == Drop(l.rest, field_id_len)
               IN IF ~RegionOk(l.len + 1, offset_width, Len(d2)) THEN NoRef("panic")
                  ELSE LET offset_len == (l.len + 1) * offset_width
                       IN [tag |-> "ok", len |-> l.len,
                           field_id_width |-> field_id_width,
                           offset_width |-> offset_width,
                           field_ids |-> Take(l.rest, field_id_len),
                           offsets |-> Take(d2, offset_len),
                           values |-> Drop(d2, offset_len)]

get_field_id(o, idx) ==
  UnsignedLE(Slice(o.field_ids, idx * o.field_id_width, (idx + 1) * o.field_id_width))

object_get_offset(o, idx) ==
  UnsignedLE(Slice(o.offsets, idx * o.offset_width, (idx + 1) * o.offset_width))

\* ObjectRef::get_value: from the value's offset to the final offset
get_value(o, idx) ==
  LET start == object_get_offset(o, idx)
      end == object_get_offset(o, o.len)
  IN IF WidthOk(o.offset_width) /\ SliceOk(o.values, start, end)
     THEN [tag |-> "some", val |-> Slice(o.values, start, end)]
     ELSE [tag |-> "panic", val |-> <<>>]

RECURSIVE get_field_loop(_, _, _, _)
get_field_loop(o, field_id, left, right) ==
  IF ~(left < right) THEN [tag |-> "none", val |-> <<>>]
  ELSE IF ~WidthOk(o.field_id_width) THEN [tag |-> "panic", val |-> <<>>]
  ELSE LET mid == left + ((right - left) \div 2)
           mid_field_id == get_field_id(o, mid)
       IN IF mid_field_id = field_id THEN get_value(o, mid)
          ELSE IF mid_field_id < field_id THEN get_field_loop(o, field_id, mid + 1, right)
          ELSE get_field_loop(o, field_id, left, mid)

get_field(o, field_id) == get_field_loop(o, field_id, 0, o.len)

ArrayRef_try_new(v) ==
  IF Len(v) = 0 THEN NoRef("panic")
  ELSE IF v[1] % 4 # BasicType_Array THEN NoRef("err")
  ELSE LET header == Shr(v[1], 2)
           is_large == Shr(header, 2) % 2 = 1
           offset_width == (header % 4) + 1
           l == read_len(Drop(v, 1), is_large)
       IN IF ~l.ok THEN NoRef("panic")
          \* len = usize::MAX: len + 1 overflows, or wraps to 0 without the checks
          ELSE IF l.len = -1 /\ overflow_checks THEN NoRef("panic")
          ELSE IF ~RegionOk(l.len + 1, offset_width, Len(l.rest)) THEN NoRef("panic")
          ELSE LET offset_len == (l.len + 1) * offset_width
               IN [tag |-> "ok", len |-> l.len, offset_width |-> offset_width,
                   offsets |-> Take(l.rest, offset_len),
                   values |-> Drop(l.rest, offset_len)]

array_get_offset(a, idx) ==
  UnsignedLE(Slice(a.offsets, idx * a.offset_width, (idx + 1) * a.offset_width))

get_element(a, index) ==
  IF a.len >= 0 /\ index >= a.len THEN [tag |-> "none", val |-> <<>>]
  ELSE IF ~WidthOk(a.offset_width)
          \/ ~SliceOk(a.offsets, (index + 1) * a.offset_width, (index + 2) * a.offset_width)
  THEN [tag |-> "panic", val |-> <<>>]
  ELSE LET start == array_get_offset(a, index)
           end == array_get_offset(a, index + 1)
       IN IF SliceOk(a.values, start, end)
          THEN [tag |-> "some", val |-> Slice(a.values, start, end)]
          ELSE [tag |-> "panic", val |-> <<>>]

\* what field() returns when the match on basic_type() is left out
VariantRef_field_as_object(data, field_id) ==
  LET o == ObjectRef_try_new(data) IN
  IF o.tag = "err" THEN Err ELSE IF o.tag = "panic" THEN Panic
  ELSE LET f == get_field(o, field_id)
       IN IF f.tag = "panic" THEN Panic ELSE Ok(f)

\* VariantRef::field: Ok(Some(..)), Ok(None), Err or a panic
VariantRef_field(data, field_id) ==
  LET kind == basic_type(data) IN
  IF kind.tag # "ok" THEN Panic
  ELSE IF kind.val = BasicType_Object
  THEN LET o == ObjectRef_try_new(data) IN
       IF o.tag = "err" THEN Err ELSE IF o.tag = "panic" THEN Panic
       ELSE LET f == get_field(o, field_id)
            IN IF f.tag = "panic" THEN Panic ELSE Ok(f)
  ELSE IF kind.val = BasicType_Array
  THEN LET a == ArrayRef_try_new(data) IN
       IF a.tag = "err" THEN Err ELSE IF a.tag = "panic" THEN Panic
       ELSE LET e == get_element(a, field_id)
            IN IF e.tag = "panic" THEN Panic ELSE Ok(e)
  ELSE Ok([tag |-> "none", val |-> <<>>])

(***************************************************************************)
(* Arrays: ArrayBuilder::new, n calls of append_value, finish, as          *)
(* convert_value drives them.  The value starts at header_offset in the    *)
(* buffer, after whatever the buffer held before.                          *)
(***************************************************************************)
\* bytes already in the buffer when a builder is created
Prefixes == {<<>>, write_bool(<<>>, FALSE)}

\* a string value of 128 bytes: header, 4 length bytes, 123 bytes of text
LongString == write_string(<<>>, [i \in 1..(I8_MAX - 4) |-> 120])

\* encoded values appended as elements and fields
Payloads == {write_bool(<<>>, TRUE), write_i64(<<>>, Pos(MagOf(42, 8))), LongString}

\* element counts: the small ones, and the first count stored in four bytes
ElementCounts == 0..MaxElems \cup {I8_MAX + 1}

ArrInit ==
  /\ overflow_checks \in BOOLEAN
  /\ ArrowIdle
  /\ pc = "arr_init"
  /\ strings = <<>>
  /\ metadata = <<>> /\ metadata_ref = NoView /\ find = NoFind
  /\ buffer \in Prefixes /\ header_offset = 0 /\ num_elements = 0
  /\ field_offset_width = 0 /\ field_id_and_offsets = <<>>
  /\ tmp_buffer = <<>> /\ hist = <<>> /\ result = "none"

ArrFrame == UNCHANGED <<array, values, struct_array, long_len, overflow_checks, strings, metadata, metadata_ref, find,
                        field_id_and_offsets>>

ArrayBuilderNew ==
  /\ pc = "arr_init"
  /\ \E n \in ElementCounts :
       /\ num_elements' = n
       /\ field_offset_width' = get_offset_size(n)
       /\ buffer' = ArrayBuilder_new(buffer, n)
  /\ header_offset' = Len(buffer)
  /\ pc' = "arr_building"
  /\ UNCHANGED <<tmp_buffer, hist, result>>
  /\ ArrFrame

ArrayAppendValue ==
  /\ pc = "arr_building"
  /\ Len(hist) < num_elements
  /\ \E value \in (IF num_elements > MaxElems THEN {write_bool(<<>>, TRUE)} ELSE Payloads) :
       LET r == ArrayBuilder_append_value(buffer, tmp_buffer, field_offset_width, value)
       IN /\ buffer' = r.buffer
          /\ tmp_buffer' = r.tmp_buffer
          /\ hist' = Append(hist, value)
  /\ UNCHANGED <<pc, header_offset, num_elements, field_offset_width, result>>
  /\ ArrFrame

ArrayFinish ==
  /\ pc = "arr_building"
  /\ Len(hist) = num_elements
  /\ buffer' = ArrayBuilder_finish(buffer, tmp_buffer)
  /\ pc' = "arr_finished"
  /\ result' = "ok"
  /\ UNCHANGED <<header_offset, num_elements, field_offset_width, tmp_buffer, hist>>
  /\ ArrFrame

ArrNext == ArrayBuilderNew \/ ArrayAppendValue \/ ArrayFinish

SpecArr == ArrInit /\ [][ArrNext]_vars

\* the value a finished builder left in the buffer
FinishedValue == Drop(buffer, header_offset)

\* C6: after ArrayBuilder::new(n), n calls of append_value and finish, the
\* buffer reads back as an array of length n whose element i is exactly the
\* i-th payload appended, and get_element(n) is None.
C6_ArrayRoundTrip ==
  pc = "arr_finished" =>
    LET a == ArrayRef_try_new(FinishedValue) IN
    /\ a.tag = "ok"
    /\ a.len = num_elements
    /\ \A i \in 1..num_elements :
         get_element(a, i - 1) = [tag |-> "some", val |-> hist[i]]
    /\ get_element(a, num_elements).tag = "none"

\* the payload bytes of the elements appended so far
TotalLen(h) == SumLenRange(h, 1, Len(h))

(***************************************************************************)
(* Objects: build_metadata over the keys, MetadataRef::new,                *)
(* ObjectBuilder::with_capacity(n), append_value per field, finish.        *)
(***************************************************************************)
\* 130 keys: the one-byte strings 0..127, then two strings sorting after them
BigDict == OneByte(I8_MAX + 1) \o <<<<I8_MAX, 0>>, <<I8_MAX, 1>>>>

\* the key inputs the dictionaries are built from
ObjDicts == {<<>>, <<<<98>>>>, <<<<98>>, <<97, 98>>, <<97>>>>, BigDict}

\* field names passed to append_value
ObjKeys == {<<97>>, <<98>>, <<97, 98>>, <<65>>, <<I8_MAX, 1>>}

\* encoded values passed to append_value
ObjValues == {write_bool(<<>>, TRUE), write_i64(<<>>, Pos(MagOf(42, 8)))}

\* element counts: the small ones, and the first count stored in four bytes
FieldCounts == 0..MaxFields \cup {I8_MAX + 1}

\* the position of a key in BigDict, 0 when it is not there
BigDictIndex(key) ==
  IF \E i \in 1..Len(BigDict) : BigDict[i] = key
  THEN CHOOSE i \in 1..Len(BigDict) : BigDict[i] = key
  ELSE 0

\* the field names a caller passes next: any key not yet appended for a small
\* object; for an object of more than MaxFields fields the keys of BigDict in
\* order, starting at its first or at its third key
NextKeys ==
  IF num_elements <= MaxFields THEN ObjKeys \ {hist[i].key : i \in 1..Len(hist)}
  ELSE IF hist = <<>> THEN {BigDict[1], BigDict[3]}
  ELSE LET last == BigDictIndex(hist[Len(hist)].key)
       IN IF last < Len(BigDict) THEN {BigDict[last + 1]} ELSE {}

\* the encoded values a caller passes next
NextValues ==
  IF num_elements <= MaxFields THEN ObjValues ELSE {write_bool(<<>>, TRUE)}

ObjInit ==
  /\ overflow_checks \in BOOLEAN
  /\ pc = "input"
  /\ strings \in ObjDicts
  /\ Idle

ObjFrame == UNCHANGED <<array, values, struct_array, long_len, overflow_checks, strings, metadata, metadata_ref, find,
                        field_offset_width>>

ObjectBuilderWithCapacity ==
  /\ pc = "open"
  /\ \E n \in FieldCounts :
       /\ num_elements' = n
       /\ buffer' = ObjectBuilder_with_capacity(buffer, n)
  /\ header_offset' = Len(buffer)
  /\ pc' = "obj_building"
  /\ result' = "none"
  /\ UNCHANGED <<field_id_and_offsets, tmp_buffer, hist>>
  /\ ObjFrame

\* the keys appended so far
AppendedKeys == {hist[i].key : i \in 1..Len(hist)}

ObjectAppendValue ==
  /\ pc = "obj_building"
  /\ Len(hist) < num_elements
  /\ \E key \in NextKeys, value \in NextValues :
       LET r == ObjectBuilder_append_value(metadata_ref, field_id_and_offsets,
                                           tmp_buffer, key, value)
       IN /\ field_id_and_offsets' = r.field_id_and_offsets
          /\ tmp_buffer' = r.tmp_buffer
          /\ result' = r.tag
          /\ find' = [NoFind EXCEPT !.key = key]
          /\ hist' = IF r.tag = "ok" THEN Append(hist, [key |-> key, value |-> value])
                     ELSE hist
          /\ pc' = IF r.tag = "panic" THEN "panicked" ELSE pc
  /\ UNCHANGED <<array, values, struct_array, long_len, overflow_checks, strings, metadata, metadata_ref, field_offset_width,
                 buffer, header_offset, num_elements>>

ObjectFinish ==
  /\ pc = "obj_building"
  /\ Len(hist) = num_elements
  /\ buffer' = ObjectBuilder_finish(buffer, header_offset, field_id_and_offsets, tmp_buffer)
  /\ pc' = "obj_finished"
  /\ result' = "ok"
  /\ UNCHANGED <<header_offset, num_elements, field_id_and_offsets, tmp_buffer, hist>>
  /\ ObjFrame

ObjNext ==
  \/ BuildMetadata
  \/ MetadataRefNew
  \/ ObjectBuilderWithCapacity
  \/ ObjectAppendValue
  \/ ObjectFinish

SpecObj == ObjInit /\ [][ObjNext]_vars

\* the id find_string gives a member key
IdOf(key) == find_string(metadata_ref, key).idx

\* the ids of the keys appended so far
AppendedIds == {IdOf(hist[i].key) : i \in 1..Len(hist)}

\* data begins with the bytes of value
StartsWith(data, value) == Len(data) >= Len(value) /\ Take(data, Len(value)) = value

\* C3: in a finished object, get_field(find_string(k_i)) is a view starting at
\* the first byte of v_i for every appended pair, and get_field(id) is None for
\* every dictionary id that no appended key has.
C3_GetFieldFindsEveryAppendedValue ==
  pc = "obj_finished" =>
    LET o == ObjectRef_try_new(FinishedValue) IN
    /\ o.tag = "ok"
    /\ \A i \in 1..Len(hist) :
         LET g == get_field(o, IdOf(hist[i].key))
         IN g.tag = "some" /\ StartsWith(g.val, hist[i].value)
    /\ \A id \in 0..(dictionary_len(metadata_ref) - 1) :
         id \notin AppendedIds => get_field(o, id).tag = "none"

\* C4: in a finished object, the slice of the view get_field(find_string(k_i))
\* returns is exactly v_i, with nothing after it.
C4_GetFieldSliceIsExactlyTheValue ==
  pc = "obj_finished" =>
    LET o == ObjectRef_try_new(FinishedValue) IN
    /\ o.tag = "ok"
    /\ \A i \in 1..Len(hist) :
         get_field(o, IdOf(hist[i].key)) = [tag |-> "some", val |-> hist[i].value]

\* the field ids as finish() laid them out: num_elements entries of
\* finish_field_id_width bytes after the header byte and the element count
StoredFieldIds ==
  LET start == header_offset + 1 + num_elements_width_of(num_elements)
      w == finish_field_id_width(field_id_and_offsets)
  IN [i \in 1..num_elements |->
        UnsignedLE(Slice(buffer, start + (i - 1) * w, start + i * w))]

\* C5: the field ids finish() stored are strictly increasing, whatever the
\* order of the appends, and they are the ids of the appended keys.
C5_StoredFieldIdsStrictlyIncreasing ==
  pc = "obj_finished" =>
    /\ \A i \in 1..(num_elements - 1) : StoredFieldIds[i] < StoredFieldIds[i + 1]
    /\ {StoredFieldIds[i] : i \in 1..num_elements} = AppendedIds

\* an object finished after appends made in descending id order, the last
\* key having an id beyond one byte's signed range
C5_Witness ==
  /\ pc = "obj_finished"
  /\ Len(field_id_and_offsets) = MaxFields
  /\ \A i \in 1..(MaxFields - 1) :
       field_id_and_offsets[i][1] > field_id_and_offsets[i + 1][1]
  /\ field_id_and_offsets[1][1] > I8_MAX
  /\ \A i \in 1..(MaxFields - 1) : StoredFieldIds[i] < StoredFieldIds[i + 1]

\* C10: append_value with a key that is not in the dictionary returns an
\* error and leaves the recorded pairs, the scratch buffer and the target
\* buffer as they were.
C10_AppendOfNonMemberKeyIsAnError ==
  [][(ObjectAppendValue /\ ~IsMember(find'.key)) =>
       (/\ result' = "err"
        /\ UNCHANGED <<field_id_and_offsets, tmp_buffer, buffer, hist>>)]_vars

(***************************************************************************)
(* Readers over bytes the caller does not control: the buffer holds a      *)
(* well-formed metadata or value, a prefix of one, or a count byte that    *)
(* reads as negative; one reader or typed extractor is applied to it.      *)
(***************************************************************************)
SampleMetadata == build_metadata(<<<<98>>, <<97>>>>)

SampleObject ==
  ObjectBuilder_finish(ObjectBuilder_with_capacity(<<>>, 2), 0,
                       <<<<1, 0>>, <<0, 1>>>>,
                       write_bool(<<>>, TRUE) \o write_i64(<<>>, Pos(MagOf(42, 8))))

SampleArray ==
  ArrayBuilder_finish(
    ArrayBuilder_append_value(
      ArrayBuilder_append_value(ArrayBuilder_new(<<>>, 2), <<>>, 1,
                                write_bool(<<>>, TRUE)).buffer,
      write_bool(<<>>, TRUE), 1, write_i64(<<>>, Pos(MagOf(42, 8)))).buffer,
    write_bool(<<>>, TRUE) \o write_i64(<<>>, Pos(MagOf(42, 8))))

\* write_null is not in write.rs; its one byte is the header of primitive id Null
SamplePrimitives ==
  {<<primitive_header(PrimitiveTypeId_Null)>>,
   write_bool(<<>>, TRUE), write_bool(<<>>, FALSE),
   write_i64(<<>>, Pos(MagOf(42, 8))),
   write_f64(<<>>, F64Zero),
   write_string(<<>>, <<97, 98>>),
   write_decimal(<<>>, I32MaxWide, 0),
   write_decimal(<<>>, I64MaxWide, 0),
   write_decimal(<<>>, Pos(MagInc(I64MaxWide.mag)), 0)}

\* a ShortString value: header (length << 2) | 1, then the bytes
SampleShortString == <<BitOr(Shl(2, 2), BasicType_ShortString), 97, 98>>

\* the ids and indexes field() is called with
FieldArgs == {0, 1, 2, I8_MAX + 1}

Prefixes_of(b) == {Take(b, k) : k \in 0..Len(b)}

\* a count byte 0xff (len = -1 as i8) after an object or array header
NegativeCounts == {<<BasicType_Object, 255>>, <<BasicType_Array, 255>>,
                   <<BasicType_Array, 254>>}

ReadInputs ==
  UNION {Prefixes_of(b) : b \in {SampleMetadata, SampleObject, SampleArray, SampleShortString}
                              \cup SamplePrimitives}
  \cup NegativeCounts

ReadInit ==
  /\ overflow_checks \in BOOLEAN
  /\ ArrowIdle
  /\ pc = "bytes"
  /\ strings = <<>>
  /\ metadata = <<>> /\ metadata_ref = NoView /\ find = NoFind
  /\ buffer \in ReadInputs /\ header_offset = 0 /\ num_elements = 0
  /\ field_offset_width = 0 /\ field_id_and_offsets = <<>>
  /\ tmp_buffer = <<>> /\ hist = <<>> /\ result = "none"

ReadFrame == UNCHANGED <<array, values, struct_array, long_len, overflow_checks, strings, metadata, metadata_ref, find, buffer,
                         header_offset, num_elements, field_offset_width,
                         field_id_and_offsets, tmp_buffer>>

\* the call returns r: its tag is the outcome, hist keeps what it returned
Returned(op, r) == pc' = op /\ result' = r.tag /\ hist' = <<r>>

OpenMetadataRef ==
  /\ pc = "bytes"
  /\ LET m == MetadataRef_new(buffer)
     IN Returned("MetadataRef_new", [tag |-> IF m.ok THEN "ok" ELSE "panic", val |-> m])
  /\ ReadFrame

OpenVariantRef ==
  /\ pc = "bytes"
  /\ Returned("VariantRef_try_new", VariantRef_try_new(buffer))
  /\ ReadFrame

\* ObjectRef::try_new and ArrayRef::try_new take a VariantRef: the bytes are not empty
OpenObjectRef ==
  /\ pc = "bytes" /\ VariantRef_try_new(buffer).tag = "ok"
  /\ Returned("ObjectRef_try_new", ObjectRef_try_new(buffer))
  /\ ReadFrame

OpenArrayRef ==
  /\ pc = "bytes" /\ VariantRef_try_new(buffer).tag = "ok"
  /\ Returned("ArrayRef_try_new", ArrayRef_try_new(buffer))
  /\ ReadFrame

GetBool ==
  /\ pc = "bytes" /\ VariantRef_try_new(buffer).tag = "ok"
  /\ Returned("get_bool", get_bool(buffer))
  /\ ReadFrame

GetI64 ==
  /\ pc = "bytes" /\ VariantRef_try_new(buffer).tag = "ok"
  /\ Returned("get_i64", get_i64(buffer))
  /\ ReadFrame

GetI128 ==
  /\ pc = "bytes" /\ VariantRef_try_new(buffer).tag = "ok"
  /\ Returned("get_i128", get_i128(buffer))
  /\ ReadFrame

GetF64 ==
  /\ pc = "bytes" /\ VariantRef_try_new(buffer).tag = "ok"
  /\ Returned("get_f64", get_f64(buffer))
  /\ ReadFrame

GetString ==
  /\ pc = "bytes" /\ VariantRef_try_new(buffer).tag = "ok"
  /\ Returned("get_string", variant_get_string(buffer))
  /\ ReadFrame

Field ==
  /\ pc = "bytes" /\ VariantRef_try_new(buffer).tag = "ok"
  /\ \E k \in FieldArgs : Returned("field", VariantRef_field(buffer, k))
  /\ ReadFrame

ReadNext ==
  \/ OpenMetadataRef \/ OpenVariantRef \/ OpenObjectRef \/ OpenArrayRef
  \/ GetBool \/ GetI64 \/ GetI128 \/ GetF64 \/ GetString \/ Field

SpecRead == ReadInit /\ [][ReadNext]_vars

\* the metadata header and dictionary size declare more bytes than data has:
\* the header byte, the size, and size + 1 offsets of the header's width
MetadataShort(data) ==
  \/ Len(data) = 0
  \/ LET w == ((data[1] \div 64) % 4) + 1 IN
     \/ Len(data) < 1 + w
     \/ LET n == SignedLE(Slice(data, 1, 1 + w))
        IN n < 0 \/ n > Len(data) \/ Len(data) < 1 + w + w * (n + 1)

\* the header and element count of an object or array declare more bytes
\* than data has: ids is the number of field-id tables (1 object, 0 array)
ContainerShort(data, is_large, id_width, offset_width) ==
  LET cw == IF is_large THEN 4 ELSE 1 IN
  \/ Len(data) < 1 + cw
  \/ LET n == SignedLE(Slice(data, 1, 1 + cw))
     IN n < 0 \/ n > Len(data)
          \/ Len(data) < 1 + cw + n * id_width + (n + 1) * offset_width

ObjectShort(data) ==
  ContainerShort(data, (data[1] \div 64) % 2 = 1, ((data[1] \div 16) % 4) + 1,
                 ((data[1] \div 4) % 4) + 1)

ArrayShort(data) ==
  ContainerShort(data, (data[1] \div 16) % 2 = 1, 0, ((data[1] \div 4) % 4) + 1)

\* C11: a reader opened over bytes shorter than the regions their header and
\* element count declare returns an error value; it does not panic.
C11_ShortInputIsAnError ==
  /\ (pc = "MetadataRef_new" /\ MetadataShort(buffer)) => result = "err"
  /\ (pc = "VariantRef_try_new" /\ Len(buffer) = 0) => result = "err"
  /\ (pc = "ObjectRef_try_new" /\ buffer[1] % 4 = BasicType_Object /\ ObjectShort(buffer))
       => result = "err"
  /\ (pc = "ArrayRef_try_new" /\ buffer[1] % 4 = BasicType_Array /\ ArrayShort(buffer))
       => result = "err"

\* the primitive ids each typed extractor accepts
AcceptedIds(op) ==
  IF op = "get_bool" THEN {PrimitiveTypeId_BoolTrue, PrimitiveTypeId_BoolFalse}
  ELSE IF op = "get_i64" THEN {PrimitiveTypeId_Int64}
  ELSE IF op = "get_i128" THEN {PrimitiveTypeId_Decimal16}
  ELSE IF op = "get_f64" THEN {PrimitiveTypeId_Float64}
  ELSE {PrimitiveTypeId_String}

Extractors == {"get_bool", "get_i64", "get_i128", "get_f64", "get_string"}

\* C12: a typed extractor called on a primitive whose id is not the one it
\* reads returns a type-mismatch error: no panic, no decoded value.
C12_TypeMismatchIsAnError ==
  (pc \in Extractors /\ buffer[1] % 4 = BasicType_Primitive
     /\ (buffer[1] \div 4) \notin AcceptedIds(pc)) => result = "err"

\* the field-id width ObjectRef::try_new decodes from the header byte
header_field_id_width(buf, at) == (Shr(Shr(buf[at + 1], 2), 2) % 4) + 1

\* C13: in every finished object the field-id width in the header equals the
\* width at which finish() wrote the field ids.
C13_HeaderFieldIdWidthIsWrittenWidth ==
  pc = "obj_finished" =>
    header_field_id_width(buffer, header_offset) = finish_field_id_width(field_id_and_offsets)

(***************************************************************************)
(* Both builders under one specification: a caller builds either an array  *)
(* or an object.                                                           *)
(***************************************************************************)
BuildInit == ArrInit \/ ObjInit

BuildNext == ArrNext \/ ObjNext

SpecBuild == BuildInit /\ [][BuildNext]_vars

\* the offsets table of a finished array as the builder laid it out:
\* num_elements + 1 entries of field_offset_width bytes after the count
StoredArrayOffsets ==
  LET start == header_offset + 1 + num_elements_width_of(num_elements)
      w == field_offset_width
  IN [i \in 1..(num_elements + 1) |->
        UnsignedLE(Slice(buffer, start + (i - 1) * w, start + i * w))]

\* the offsets table of a finished object as finish() laid it out: after the
\* field ids, num_elements + 1 entries of the width chosen from the final offset
StoredObjectOffsets ==
  LET w == get_offset_size(Len(tmp_buffer))
      start == header_offset + 1 + num_elements_width_of(num_elements)
                 + num_elements * finish_field_id_width(field_id_and_offsets)
  IN [i \in 1..(num_elements + 1) |->
        UnsignedLE(Slice(buffer, start + (i - 1) * w, start + i * w))]

StoredIndex(i) ==
  1 + Cardinality({j \in 1..Len(field_id_and_offsets) :
                      field_id_and_offsets[j][1] < field_id_and_offsets[i][1]})

metadata_offset_size(md) == (Shr(md[1], 6) % 4) + 1

\* the largest count a signed integer of that many bytes holds (counts of the
\* model stay far below the 4-byte limit)
signed_max(w) == IF w = 1 THEN I8_MAX ELSE IF w = 2 THEN I16_MAX ELSE I32_MAX

\* C15: for every input to build_metadata the number of distinct strings is at
\* most signed_max(W) for the offset width W chosen from the total string
\* bytes, and the dictionary size written at width W reads back as that number.
C15_DictionarySizeFitsOffsetWidth ==
  pc = "built" =>
    LET W == metadata_offset_size(metadata)
        n == Cardinality(InputSet(strings))
    IN /\ n <= signed_max(W)
       /\ read_integer(metadata, 1, W) = n

(***************************************************************************)
(* Metadata followed by other bytes: the caller hands MetadataRef::new a   *)
(* slice that continues past the metadata build_metadata produced.         *)
(***************************************************************************)
\* the bytes that follow the metadata in the caller's slice
Trailers == {<<1>>, <<255, 255>>, <<0, 0, 0>>}

MetadataRefNewOverLong ==
  /\ pc = "built"
  /\ \E t \in Trailers :
       /\ buffer' = metadata \o t
       /\ metadata_ref' = MetadataRef_new(metadata \o t)
  /\ pc' = IF metadata_ref'.ok THEN "open" ELSE "panicked"
  /\ result' = IF metadata_ref'.ok THEN "ok" ELSE "panic"
  /\ UNCHANGED <<array, values, struct_array, long_len, overflow_checks, strings, metadata, find, header_offset,
                 num_elements, field_offset_width, field_id_and_offsets, tmp_buffer, hist>>

TrailNext ==
  \/ BuildMetadata
  \/ MetadataRefNewOverLong
  \/ FindStringBegin
  \/ FindStringStep
  \/ FindStringReturn

SpecTrail == MetaInit /\ [][TrailNext]_vars

\* C16: a view opened over build_metadata's output followed by extra bytes
\* reports the same version, sorted flag, dictionary_len, get_string(i) for
\* every i and find_string(s) for every member s as a view opened over the
\* output alone.
C16_TrailingBytesAreIgnored ==
  Len(buffer) > Len(metadata) =>
    LET alone == MetadataRef_new(metadata) IN
    /\ metadata_ref.ok = alone.ok
    /\ alone.ok =>
         /\ version(metadata_ref) = version(alone)
         /\ sorted_strings(metadata_ref) = sorted_strings(alone)
         /\ dictionary_len(metadata_ref) = dictionary_len(alone)
         /\ \A i \in 0..dictionary_len(alone) :
              get_string(metadata_ref, i) = get_string(alone, i)
         /\ \A s \in InputSet(strings) :
              find_string(metadata_ref, s) = find_string(alone, s)

\* a view over a three-string dictionary followed by two bytes 0xff, which
\* still reports three strings and finds "b" last
C16_Witness ==
  /\ pc = "open"
  /\ buffer = metadata \o <<255, 255>>
  /\ metadata_ref.ok
  /\ dictionary_len(metadata_ref) = 3
  /\ get_string(metadata_ref, 2) = [tag |-> "some", str |-> <<98>>]
  /\ find_string(metadata_ref, <<98>>).idx = 2

(***************************************************************************)
(* arrow-open-variant/src/json.rs.  A jiter::JsonValue is [t, v]: t names  *)
(* the variant of the enum, v is its payload (an Int is an i64, a BigInt a *)
(* sign and a 17-byte magnitude, an Array a sequence of values, an Object  *)
(* a sequence of <<key, value>>).  A row of the input array is             *)
(* [valid, parsed, json]: valid is its bit of the null buffer, parsed says *)
(* whether jiter accepts its text and json is the value jiter returns.     *)
(***************************************************************************)
MaxRows == 3

JsonNull == [t |-> "Null", v |-> <<>>]
JsonBool(b) == [t |-> "Bool", v |-> b]
JsonInt(i) == [t |-> "Int", v |-> i]
JsonFloat(x) == [t |-> "Float", v |-> x]
JsonBigInt(b) == [t |-> "BigInt", v |-> b]
JsonStr(s) == [t |-> "Str", v |-> s]
JsonArray(a) == [t |-> "Array", v |-> a]
JsonObject(o) == [t |-> "Object", v |-> o]

\* matches!(json, JsonValue::Object(_) | JsonValue::Array(_))
is_nested(json) == json.t \in {"Object", "Array"}

\* one pass of the match in collect_all_keys over a value: seen and stack after it
collect_visit(json, seen, stack) ==
  IF json.t = "Object"
  THEN [seen |-> seen \cup {json.v[i][1] : i \in 1..Len(json.v)},
        stack |-> stack \o SelectSeq([i \in 1..Len(json.v) |-> json.v[i][2]], is_nested)]
  ELSE IF json.t = "Array"
  THEN [seen |-> seen, stack |-> stack \o SelectSeq(json.v, is_nested)]
  ELSE [seen |-> seen, stack |-> stack]

\* for json in jsons { .. }
RECURSIVE collect_rows(_, _, _)
collect_rows(jsons, i, st) ==
  IF i > Len(jsons) THEN st
  ELSE collect_rows(jsons, i + 1, collect_visit(jsons[i], st.seen, st.stack))

\* while let Some(json) = stack.pop() { .. }
RECURSIVE collect_stack(_)
collect_stack(st) ==
  IF Len(st.stack) = 0 THEN st
  ELSE collect_stack(collect_visit(st.stack[Len(st.stack)], st.seen,
                                   Take(st.stack, Len(st.stack) - 1)))

collect_rows_only(jsons) ==
  collect_rows(jsons, 1, [seen |-> {}, stack |-> <<>>]).seen

\* the BTreeSet collect_all_keys returns
collect_all_keys(jsons) ==
  collect_stack(collect_rows(jsons, 1, [seen |-> {}, stack |-> <<>>])).seen

\* strings.iter(): the set in ascending order
BTreeIter(S) ==
  LET before == [s \in S |-> Cardinality({t \in S : StrCmp(t, s) = "Less"})]
  IN [i \in 1..Cardinality(S) |-> CHOOSE s \in S : before[s] = i - 1]

\* make_repeated_dict_array: keys 0 repeated length times over the one scalar
make_repeated_dict_array(scalar, length) ==
  [keys |-> [i \in 1..length |-> 0], values |-> <<scalar>>]

\* write::write_null
write_null(buf) == buf \o <<primitive_header(PrimitiveTypeId_Null)>>

\* i128::try_from(&BigInt)
i128_try_from(b) ==
  IF FitsSigned(b, 128) THEN Ok([neg |-> b.neg, mag |-> Take(b.mag, 16)]) ELSE Err

\* what convert_value returns: tag "ok", "err" or "panic"; why names the
\* error; appended counts the ObjectBuilder appends that returned Ok; calls
\* lists the builder calls made, in order
Converted(buf, n) ==
  [tag |-> "ok", why |-> "", buffer |-> buf, appended |-> n, calls |-> <<>>]
NotConverted(tag, why) ==
  [tag |-> tag, why |-> why, buffer |-> <<>>, appended |-> 0, calls |-> <<>>]

\* one call on a builder: new or with_capacity with the count n, append_value
\* of payload (converted from child into a scratch buffer that held scratch),
\* or finish; builder is the path of element positions from the outermost
\* value to the value the builder writes
BuilderCall(op, n, scratch, payload, child) ==
  [op |-> op, builder |-> <<>>, n |-> n, scratch |-> scratch, payload |-> payload,
   child |-> child]
CallNew(n) == BuilderCall("new", n, <<>>, <<>>, JsonNull)
CallAppend(scratch, payload, child) == BuilderCall("append", 0, scratch, payload, child)
CallFinish == BuilderCall("finish", 0, <<>>, <<>>, JsonNull)

\* the calls a child conversion made, seen from the parent's element i
CallsOfChild(calls, i) ==
  [k \in 1..Len(calls) |-> [calls[k] EXCEPT !.builder = <<i>> \o @]]

Vec_clear_kept(v) == v

\* tmp_buffer.clear()
Vec_clear(v) == <<>>

RECURSIVE convert_value(_, _, _)
RECURSIVE convert_array(_, _, _, _, _, _, _)
RECURSIVE convert_object(_, _, _, _, _, _, _, _, _)

\* the loop of the Array arm from element i on: convert into the scratch
\* buffer, append_value, clear; then finish
convert_array(a, i, buf, tmp, scratch, metadata_view, n) ==
  IF i > Len(a)
  THEN [Converted(ArrayBuilder_finish(buf, tmp), n) EXCEPT !.calls = <<CallFinish>>]
  ELSE LET c == convert_value(a[i], scratch, metadata_view) IN
    IF c.tag # "ok" THEN [c EXCEPT !.calls = CallsOfChild(@, i)]
    ELSE LET b == ArrayBuilder_append_value(buf, tmp, get_offset_size(Len(a)), c.buffer)
             rest == convert_array(a, i + 1, b.buffer, b.tmp_buffer, Vec_clear(c.buffer),
                                   metadata_view, n + c.appended)
         IN [rest EXCEPT !.calls = CallsOfChild(c.calls, i)
                                     \o <<CallAppend(scratch, c.buffer, a[i])>> \o @]

\* the loop of the Object arm from member i on: convert into the scratch
\* buffer, append_value, clear; then finish
convert_object(o, i, buf, at, pairs, tmp, scratch, metadata_view, n) ==
  IF i > Len(o)
  THEN [Converted(ObjectBuilder_finish(buf, at, pairs, tmp), n) EXCEPT !.calls = <<CallFinish>>]
  ELSE LET c == convert_value(o[i][2], scratch, metadata_view) IN
    IF c.tag # "ok" THEN [c EXCEPT !.calls = CallsOfChild(@, i)]
    ELSE LET r == ObjectBuilder_append_value(metadata_view, pairs, tmp, o[i][1], c.buffer) IN
      IF r.tag = "panic"
      THEN [NotConverted("panic", "") EXCEPT !.calls = CallsOfChild(c.calls, i)]
      ELSE IF r.tag = "err"
      THEN [NotConverted("err", "key not found") EXCEPT !.calls = CallsOfChild(c.calls, i)]
      ELSE LET rest == convert_object(o, i + 1, buf, at, r.field_id_and_offsets,
                                      r.tmp_buffer, Vec_clear(c.buffer), metadata_view,
                                      n + c.appended + 1)
           IN [rest EXCEPT !.calls = CallsOfChild(c.calls, i)
                                       \o <<CallAppend(scratch, c.buffer, o[i][2])>> \o @]

convert_value(json, buf, metadata_view) ==
  IF json.t = "Null" THEN Converted(write_null(buf), 0)
  ELSE IF json.t = "Bool" THEN Converted(write_bool(buf, json.v), 0)
  ELSE IF json.t = "Int" THEN Converted(write_i64(buf, json.v), 0)
  ELSE IF json.t = "Float" THEN Converted(write_f64(buf, json.v), 0)
  ELSE IF json.t = "BigInt"
  THEN LET value == i128_try_from(json.v) IN
       IF value.tag # "ok" THEN NotConverted("err", "could not fit")
       ELSE Converted(write_decimal(buf, value.val, 0), 0)
  ELSE IF json.t = "Str" THEN Converted(write_string(buf, json.v), 0)
  ELSE IF json.t = "Array"
  THEN LET r == convert_array(json.v, 1, ArrayBuilder_new(buf, Len(json.v)), <<>>, <<>>,
                              metadata_view, 0)
       IN [r EXCEPT !.calls = <<CallNew(Len(json.v))>> \o @]
  ELSE LET r == convert_object(json.v, 1, ObjectBuilder_with_capacity(buf, Len(json.v)),
                               Len(buf), <<>>, <<>>, <<>>, metadata_view, 0)
       IN [r EXCEPT !.calls = <<CallNew(Len(json.v))>> \o @]

values_from_json_row_kept(row, c) == [null |-> ~row.valid, bytes |-> c.buffer]

\* the entry values_from_json appends for a row converted to c
values_from_json_row(row, c) ==
  IF row.valid
  THEN IF c.buffer = <<0>> THEN [null |-> TRUE, bytes |-> <<>>]
       ELSE [null |-> FALSE, bytes |-> c.buffer]
  ELSE [null |-> TRUE, bytes |-> <<>>]

(***************************************************************************)
(* The batches variant_from_json is run on.                                *)
(***************************************************************************)
ArrowNullRow == [valid |-> FALSE, parsed |-> TRUE, json |-> JsonNull]
InvalidTextRow == [valid |-> TRUE, parsed |-> FALSE, json |-> JsonNull]
TextRow(json) == [valid |-> TRUE, parsed |-> TRUE, json |-> json]

\* {"a": null, "b": [{"c": 1}]}
NestedObject ==
  JsonObject(<<<<<<97>>, JsonNull>>,
               <<<<98>>, JsonArray(<<JsonObject(<<<<<<99>>, JsonInt(Pos(MagOf(1, 8)))>>>>)>>)>>>>)

\* [null, true, "s", 0.0]
MixedArray == JsonArray(<<JsonNull, JsonBool(TRUE), JsonStr(<<115>>), JsonFloat(F64Zero)>>)

\* 2^128 and i128::MAX as jiter hands them over
BigIntTooBig == JsonBigInt(Pos(MagPow2(128, 17)))
BigIntFits == JsonBigInt(Pos(MagDec(MagPow2(127, 17))))

\* an object of 128 members: the key "" and the 127 one-byte keys 0x00..0x7e
WideObject ==
  JsonObject([i \in 1..(I8_MAX + 1) |->
                <<IF i = 1 THEN <<>> ELSE <<i - 2>>, JsonNull>>])

\* [true, [2^128]]
TooBigInside == JsonArray(<<JsonBool(TRUE), JsonArray(<<BigIntTooBig>>)>>)

JsonRows ==
  {ArrowNullRow, InvalidTextRow, TextRow(JsonNull), TextRow(NestedObject),
   TextRow(MixedArray), TextRow(TooBigInside), TextRow(BigIntFits),
   TextRow(WideObject)}

\* bytes.map(|bytes| match bytes { Some => parse, None => Ok(Null) })
jsons_of(rows) == [i \in 1..Len(rows) |-> IF rows[i].valid THEN rows[i].json ELSE JsonNull]
parse_fails(rows) == \E i \in 1..Len(rows) : rows[i].valid /\ ~rows[i].parsed

JsonInit ==
  /\ overflow_checks \in BOOLEAN
  /\ pc = "json_input"
  /\ strings = <<>>
  /\ array \in SeqsUpTo(JsonRows, MaxRows)
  /\ values = <<>> /\ struct_array = NoOutput /\ long_len = <<>>
  /\ metadata = <<>> /\ metadata_ref = NoView /\ find = NoFind
  /\ buffer = <<>> /\ header_offset = 0 /\ num_elements = 0
  /\ field_offset_width = 0 /\ field_id_and_offsets = <<>>
  /\ tmp_buffer = <<>> /\ hist = <<>> /\ result = "none"

JsonFrame == UNCHANGED <<long_len, overflow_checks, array, find, buffer, header_offset, num_elements,
                         field_offset_width, field_id_and_offsets, tmp_buffer>>

\* lines 24-31: parse every row, return the first error
JsonParse ==
  /\ pc = "json_input"
  /\ pc' = IF parse_fails(array) THEN "json_done" ELSE "json_parsed"
  /\ result' = IF parse_fails(array) THEN "err" ELSE "none"
  /\ UNCHANGED <<strings, metadata, metadata_ref, values, struct_array, hist>>
  /\ JsonFrame

\* line 38: collect_all_keys
JsonCollectKeys ==
  /\ pc = "json_parsed"
  /\ strings' = BTreeIter(collect_all_keys(jsons_of(array)))
  /\ pc' = "json_keys"
  /\ UNCHANGED <<metadata, metadata_ref, values, struct_array, hist, result>>
  /\ JsonFrame

\* line 40: build_metadata
JsonBuildMetadata ==
  /\ pc = "json_keys"
  /\ metadata' = build_metadata(strings)
  /\ pc' = "json_metadata"
  /\ UNCHANGED <<strings, metadata_ref, values, struct_array, hist, result>>
  /\ JsonFrame

\* lines 41-48: MetadataRef::new over the scalar of the dictionary array
JsonMetadataRefNew ==
  /\ pc = "json_metadata"
  /\ metadata_ref' = MetadataRef_new(make_repeated_dict_array(metadata, Len(array)).values[1])
  /\ pc' = IF metadata_ref'.ok THEN "json_rows" ELSE "panicked"
  /\ result' = IF metadata_ref'.ok THEN "none" ELSE "panic"
  /\ UNCHANGED <<strings, metadata, values, struct_array, hist>>
  /\ JsonFrame

\* values_from_json: one turn of the loop; hist keeps what convert_value returned
JsonRow ==
  /\ pc = "json_rows"
  /\ Len(values) < Len(array)
  /\ LET i == Len(values) + 1
         c == IF array[i].valid THEN convert_value(jsons_of(array)[i], <<>>, metadata_ref)
              ELSE Converted(<<>>, 0)
     IN /\ hist' = Append(hist, c)
        /\ IF c.tag = "ok"
           THEN /\ values' = Append(values, values_from_json_row(array[i], c))
                /\ UNCHANGED <<pc, result>>
           ELSE /\ values' = <<>>
                /\ pc' = IF c.tag = "err" THEN "json_done" ELSE "panicked"
                /\ result' = c.tag
  /\ UNCHANGED <<strings, metadata, metadata_ref, struct_array>>
  /\ JsonFrame

\* lines 52-66: builder.finish() and the StructArray
JsonFinish ==
  /\ pc = "json_rows"
  /\ Len(values) = Len(array)
  /\ struct_array' = [metadata |-> make_repeated_dict_array(metadata, Len(array)),
                      values |-> values]
  /\ pc' = "json_done"
  /\ result' = "ok"
  /\ UNCHANGED <<strings, metadata, metadata_ref, values, hist>>
  /\ JsonFrame

JsonNext ==
  \/ JsonParse
  \/ JsonCollectKeys
  \/ JsonBuildMetadata
  \/ JsonMetadataRefNew
  \/ JsonRow
  \/ JsonFinish

SpecJson == JsonInit /\ [][JsonNext]_vars

\* where the value at index idx of an opened object ends: the next larger
\* stored offset
ValueEnd(o, idx) ==
  LET start == object_get_offset(o, idx)
      later == {object_get_offset(o, k) : k \in 0..o.len} \ (0..start)
  IN CHOOSE x \in later : \A y \in later : x <= y

\* the index find_field's binary search stops at for a field id
FieldIndex(o, field_id) == CHOOSE k \in 0..(o.len - 1) : get_field_id(o, k) = field_id

\* every null nested in json is, in the encoding data of json, one byte that
\* reads as the Null primitive
RECURSIVE NestedNullsEncoded(_, _)
NestedNullsEncoded(json, data) ==
  IF json.t = "Array"
  THEN LET a == ArrayRef_try_new(data) IN
       /\ a.tag = "ok"
       /\ \A k \in 1..Len(json.v) :
            LET e == get_element(a, k - 1) IN
            /\ e.tag = "some"
            /\ json.v[k].t = "Null" =>
                 e.val = <<primitive_header(PrimitiveTypeId_Null)>>
            /\ NestedNullsEncoded(json.v[k], e.val)
  ELSE IF json.t = "Object"
  THEN LET o == ObjectRef_try_new(data) IN
       /\ o.tag = "ok"
       /\ \A k \in 1..Len(json.v) :
            LET id == find_string(metadata_ref, json.v[k][1]).idx
                f == get_field(o, id)
            IN /\ f.tag = "some"
               /\ json.v[k][2].t = "Null" =>
                    /\ primitive_type_id(f.val) = Ok(PrimitiveTypeId_Null)
                    /\ ValueEnd(o, FieldIndex(o, id)) = object_get_offset(o, FieldIndex(o, id)) + 1
               /\ NestedNullsEncoded(json.v[k][2], f.val)
  ELSE TRUE

\* C17: in the column variant_from_json returns, row i is a null entry
\* exactly when input row i is an Arrow null or its text is the top-level
\* JSON null; a null nested in an object or an array leaves the row non-null
\* and is stored in it as the one-byte Null primitive.
C17_NullRowsAreArrowOrTopLevelNull ==
  (pc = "json_done" /\ result = "ok") =>
    /\ Len(struct_array.values) = Len(array)
    /\ \A i \in 1..Len(array) :
         /\ struct_array.values[i].null <=>
              (~array[i].valid \/ array[i].json.t = "Null")
         /\ ~struct_array.values[i].null =>
              NestedNullsEncoded(array[i].json, struct_array.values[i].bytes)

\* a batch of a top-level null, an object holding a null member and an
\* Arrow null: rows 1 and 3 are null, row 2 is not and holds the Null byte
C17_Witness ==
  /\ pc = "json_done" /\ result = "ok"
  /\ array = <<TextRow(JsonNull), TextRow(NestedObject), ArrowNullRow>>
  /\ struct_array.values[1].null
  /\ ~struct_array.values[2].null
  /\ struct_array.values[3].null
  /\ primitive_type_id(get_field(ObjectRef_try_new(struct_array.values[2].bytes),
                                 find_string(metadata_ref, <<97>>).idx).val)
       = Ok(PrimitiveTypeId_Null)

\* the object keys that occur in a JSON value, at any depth
RECURSIVE KeysOf(_)
KeysOf(json) ==
  IF json.t = "Object"
  THEN {json.v[k][1] : k \in 1..Len(json.v)}
         \cup UNION {KeysOf(json.v[k][2]) : k \in 1..Len(json.v)}
  ELSE IF json.t = "Array" THEN UNION {KeysOf(json.v[k]) : k \in 1..Len(json.v)}
  ELSE {}

\* the object keys of a batch
AllKeys(rows) == UNION {KeysOf(jsons_of(rows)[i]) : i \in 1..Len(rows)}

\* the number of object members in a JSON value, at any depth
RECURSIVE SumMembers(_, _)
RECURSIVE Members(_)
SumMembers(vs, k) == IF k > Len(vs) THEN 0 ELSE Members(vs[k]) + SumMembers(vs, k + 1)
Members(json) ==
  IF json.t = "Object"
  THEN Len(json.v) + SumMembers([k \in 1..Len(json.v) |-> json.v[k][2]], 1)
  ELSE IF json.t = "Array" THEN SumMembers(json.v, 1)
  ELSE 0

\* C18: the one dictionary variant_from_json builds for a batch holds every
\* object key of every row, whatever its depth inside objects and arrays;
\* every ObjectBuilder append made while the rows are encoded finds its key,
\* and no row fails with a key-not-found error.
C18_DictionaryHoldsEveryKey ==
  /\ metadata # <<>> =>
       /\ AllKeys(array) \subseteq InputSet(strings)
       /\ LET m == MetadataRef_new(metadata) IN
          m.ok => \A key \in AllKeys(array) :
                    LET f == find_string(m, key) IN
                    /\ f.status = "some"
                    /\ get_string(m, f.idx) = [tag |-> "some", str |-> key]
  /\ \A i \in 1..Len(hist) :
       /\ hist[i].why # "key not found"
       /\ hist[i].tag # "panic"
       /\ hist[i].tag = "ok" /\ array[i].valid => hist[i].appended = Members(array[i].json)

\* {"a": null, "b": [{"c": 1}]} encoded: the dictionary is a, b, c and all
\* three appends, the one of "c" inside the array included, found their key
C18_Witness ==
  /\ pc = "json_done" /\ result = "ok"
  /\ array = <<TextRow(NestedObject)>>
  /\ strings = <<<<97>>, <<98>>, <<99>>>>
  /\ hist[1].tag = "ok" /\ hist[1].appended = 3
  /\ find_string(metadata_ref, <<99>>).status = "some"

\* the value holds, at any depth, an integer that does not fit in 128 bits
RECURSIVE HasTooBig(_)
HasTooBig(json) ==
  IF json.t = "BigInt" THEN ~FitsSigned(json.v, 128)
  ELSE IF json.t = "Array" THEN \E k \in 1..Len(json.v) : HasTooBig(json.v[k])
  ELSE IF json.t = "Object" THEN \E k \in 1..Len(json.v) : HasTooBig(json.v[k][2])
  ELSE FALSE

\* a non-null row whose text does not parse or whose value does not convert
HasFailingRow(rows) ==
  \E i \in 1..Len(rows) :
    rows[i].valid /\ (~rows[i].parsed \/ HasTooBig(rows[i].json))

\* C19: when a non-null row of the batch fails to parse, or holds at any
\* depth an integer that does not fit in 128 bits, variant_from_json returns
\* an error for the whole call and no output column, wherever the row sits
\* and whatever the other rows are.
C19_FailingRowFailsTheBatch ==
  (pc \in {"json_done", "panicked"} /\ HasFailingRow(array)) =>
    (result = "err" /\ struct_array = NoOutput)

(***************************************************************************)
(* arrow-open-variant/src/cast.rs: cast_to_variant.  A row of a boolean    *)
(* array is [valid, value]; pc tells the data type of the input array.     *)
(***************************************************************************)
\* empty_metadata: build_metadata over no strings, repeated for every row
empty_metadata(len) == make_repeated_dict_array(build_metadata(<<>>), len)

\* values::write::serialize_bool: the header byte of the boolean
serialize_bool(value) ==
  IF value THEN primitive_header(PrimitiveTypeId_BoolTrue)
  ELSE primitive_header(PrimitiveTypeId_BoolFalse)

cast_to_variant_bool_row_no_nulls(row) ==
  [null |-> FALSE, bytes |-> <<serialize_bool(row.value)>>]

\* the entry the loop of cast_to_variant_bool appends for a row
cast_to_variant_bool_row(row) ==
  IF ~row.valid THEN [null |-> TRUE, bytes |-> <<>>]
  ELSE [null |-> FALSE, bytes |-> <<serialize_bool(row.value)>>]

BoolRows ==
  {[valid |-> FALSE, value |-> FALSE], [valid |-> TRUE, value |-> FALSE],
   [valid |-> TRUE, value |-> TRUE]}

\* rows of an array of another data type
OtherRows == {[valid |-> FALSE, value |-> 0], [valid |-> TRUE, value |-> 0]}

CastInit ==
  /\ overflow_checks \in BOOLEAN
  /\ \/ pc = "cast_boolean" /\ array \in SeqsUpTo(BoolRows, MaxRows)
     \/ pc = "cast_other" /\ array \in SeqsUpTo(OtherRows, MaxRows)
  /\ strings = <<>>
  /\ values = <<>> /\ struct_array = NoOutput /\ long_len = <<>>
  /\ metadata = <<>> /\ metadata_ref = NoView /\ find = NoFind
  /\ buffer = <<>> /\ header_offset = 0 /\ num_elements = 0
  /\ field_offset_width = 0 /\ field_id_and_offsets = <<>>
  /\ tmp_buffer = <<>> /\ hist = <<>> /\ result = "none"

CastFrame == UNCHANGED <<long_len, overflow_checks, array, strings, metadata_ref, find, buffer,
                         header_offset, num_elements, field_offset_width,
                         field_id_and_offsets, tmp_buffer, hist>>

\* cast_to_variant, the arm of every data type but Boolean
CastNotYetImplemented ==
  /\ pc = "cast_other"
  /\ pc' = "cast_unsupported"
  /\ result' = "err"
  /\ UNCHANGED <<metadata, values, struct_array>>
  /\ CastFrame

\* cast_to_variant_bool up to the loop: empty_metadata and the builder
CastBoolBegin ==
  /\ pc = "cast_boolean"
  /\ metadata' = empty_metadata(Len(array)).values[1]
  /\ pc' = "cast_rows"
  /\ UNCHANGED <<values, struct_array, result>>
  /\ CastFrame

\* one turn of for i in 0..array.len()
CastBoolRow ==
  /\ pc = "cast_rows"
  /\ Len(values) < Len(array)
  /\ values' = Append(values, cast_to_variant_bool_row(array[Len(values) + 1]))
  /\ UNCHANGED <<pc, metadata, struct_array, result>>
  /\ CastFrame

\* values.finish() and the StructArray
CastBoolFinish ==
  /\ pc = "cast_rows"
  /\ Len(values) = Len(array)
  /\ struct_array' = [metadata |-> empty_metadata(Len(array)), values |-> values]
  /\ pc' = "cast_done"
  /\ result' = "ok"
  /\ UNCHANGED <<metadata, values>>
  /\ CastFrame

CastNext ==
  \/ CastNotYetImplemented
  \/ CastBoolBegin
  \/ CastBoolRow
  \/ CastBoolFinish

SpecCast == CastInit /\ [][CastNext]_vars

\* C20: cast_to_variant on a boolean column of length L returns a variant
\* column of length L; a non-null input row holds exactly one byte, which
\* get_bool decodes to the row's boolean; a null input row is a null entry;
\* every row points at entry 0 of a dictionary whose one value is the
\* metadata of the empty dictionary.
C20_BoolCastKeepsRows ==
  pc = "cast_done" =>
    /\ result = "ok"
    /\ Len(struct_array.values) = Len(array)
    /\ Len(struct_array.metadata.keys) = Len(array)
    /\ Len(struct_array.metadata.values) = 1
    /\ LET m == MetadataRef_new(struct_array.metadata.values[1])
       IN m.ok /\ dictionary_len(m) = 0
    /\ \A i \in 1..Len(array) :
         /\ struct_array.metadata.keys[i] = 0
         /\ struct_array.values[i].null <=> ~array[i].valid
         /\ array[i].valid =>
              /\ Len(struct_array.values[i].bytes) = 1
              /\ VariantRef_try_new(struct_array.values[i].bytes).tag = "ok"
              /\ get_bool(struct_array.values[i].bytes) = Ok(array[i].value)

\* the column [true, null, false] cast: one byte, a null entry, one byte
C20_Witness ==
  /\ pc = "cast_done" /\ result = "ok"
  /\ array = <<[valid |-> TRUE, value |-> TRUE], [valid |-> FALSE, value |-> FALSE],
               [valid |-> TRUE, value |-> FALSE]>>
  /\ get_bool(struct_array.values[1].bytes) = Ok(TRUE)
  /\ struct_array.values[2].null
  /\ get_bool(struct_array.values[3].bytes) = Ok(FALSE)
  /\ struct_array.metadata.keys = <<0, 0, 0>>

\* C21: access of the wrong kind is a returned value: get_object on a value
\* that is not an Object and get_array on a value that is not an Array
\* return an error, and field(k) on a Primitive or a ShortString returns
\* Ok(None) for every k; none of them panics.
C21_WrongKindIsAValue ==
  /\ (pc = "ObjectRef_try_new" /\ buffer[1] % 4 # BasicType_Object) => result = "err"
  /\ (pc = "ArrayRef_try_new" /\ buffer[1] % 4 # BasicType_Array) => result = "err"
  /\ (pc = "field" /\ buffer[1] % 4 \in {BasicType_Primitive, BasicType_ShortString})
       => (result = "ok" /\ hist[1].val.tag = "none")

\* field() called on the ShortString "ab" returned Ok(None)
C21_Witness ==
  /\ pc = "field"
  /\ buffer = SampleShortString
  /\ result = "ok" /\ hist[1].val.tag = "none"

\* the bytes the array builder has put in the buffer after the header byte
\* and the element count
AfterCount == Drop(buffer, header_offset + 1 + num_elements_width_of(num_elements))

\* the j-th offset (from 0) in those bytes, as ArrayRef reads it
WrittenOffset(j) ==
  UnsignedLE(Slice(AfterCount, j * field_offset_width, (j + 1) * field_offset_width))

\* C22: after k calls of append_value the buffer holds, after the header and
\* the element count, exactly k + 1 offsets, 0 and then the running total of
\* the payload lengths, and no payload byte; finish() adds the payloads
\* after them, in the order they were appended.
C22_OffsetsThenPayloadsAtFinish ==
  LET k == Len(hist)
      offsets_len == (k + 1) * field_offset_width
  IN /\ pc \in {"arr_building", "arr_finished"} =>
          /\ Len(AfterCount) >= offsets_len
          /\ \A j \in 0..k : WrittenOffset(j) = TotalLen(Take(hist, j))
     /\ pc = "arr_building" => Len(AfterCount) = offsets_len
     /\ pc = "arr_finished" => Drop(AfterCount, offsets_len) = Flatten(hist)

\* the offset width ArrayRef::try_new decodes from the array's header byte
header_offset_width(buf, at) == (Shr(buf[at + 1], 2) % 4) + 1

\* C23: every offset an ArrayBuilder writes, up to the total payload
\* length, is at most signed_max of the offset width in the array header:
\* no offset is clipped, whatever the element count and the payload sizes.
C23_ArrayOffsetsFitHeaderWidth ==
  pc \in {"arr_building", "arr_finished"} =>
    \A j \in 0..Len(hist) :
      TotalLen(Take(hist, j)) <= signed_max(header_offset_width(buffer, header_offset))

(***************************************************************************)
(* build_metadata over one string too long to be written out here: the     *)
(* sum of the string lengths is followed as a usize of eight little-endian *)
(* bytes, the output up to the last offset is built, and MetadataRef::new  *)
(* decodes the header and the dictionary size from it.                     *)
(***************************************************************************)
\* determine_byte_width on a usize given by its eight bytes
determine_byte_width_usize(max_value) ==
  IF MagCmp(max_value, MagOf(I8_MAX, 8)) # "Greater" THEN 1
  ELSE IF MagCmp(max_value, MagOf(I16_MAX, 8)) # "Greater" THEN 2
  ELSE IF MagCmp(max_value, MagOf(I32_MAX, 8)) # "Greater" THEN 4
  ELSE 8

\* (offset as iN).to_le_bytes() of a usize given by its bytes
md_push_usize(output, offset, offset_size) == output \o Take(offset, offset_size)

\* build_metadata's output for one string of that many bytes, without the
\* string data: header, dictionary size 1, offsets 0 and the string length
build_metadata_head(size) ==
  LET offset_size == determine_byte_width_usize(size)
      o1 == <<md_header(offset_size)>>
      o2 == md_push_offset(o1, 1, offset_size)
      o3 == md_push_offset(o2, 0, offset_size)
  IN md_push_usize(o3, size, offset_size)

\* the sums followed: the powers of two of a usize and their predecessors
StringSizes ==
  {MagPow2(e, 8) : e \in 0..63} \cup {MagDec(MagPow2(e, 8)) : e \in 0..63}

HeadInit ==
  /\ overflow_checks \in BOOLEAN
  /\ pc = "head_input"
  /\ strings = <<>>
  /\ array = <<>> /\ values = <<>> /\ struct_array = NoOutput
  /\ long_len \in StringSizes
  /\ metadata = <<>> /\ metadata_ref = NoView /\ find = NoFind
  /\ buffer = <<>> /\ header_offset = 0 /\ num_elements = 0
  /\ field_offset_width = 0 /\ field_id_and_offsets = <<>>
  /\ tmp_buffer = <<>> /\ hist = <<>> /\ result = "none"

HeadFrame == UNCHANGED <<overflow_checks, strings, array, values, struct_array, long_len,
                         metadata_ref, find, buffer, header_offset, num_elements,
                         field_offset_width, field_id_and_offsets, tmp_buffer, result>>

BuildMetadataHead ==
  /\ pc = "head_input"
  /\ metadata' = build_metadata_head(long_len)
  /\ pc' = "head_built"
  /\ UNCHANGED hist
  /\ HeadFrame

\* MetadataRef::new up to dictionary_len, with version() and sorted_strings()
MetadataRefNewHead ==
  /\ pc = "head_built"
  /\ LET header == metadata[1]
         offset_size == ((header \div 64) % 4) + 1
     IN hist' = <<[offset_size |-> offset_size,
                   dictionary_len |-> read_integer(metadata, 1, offset_size),
                   version |-> version([header |-> header]),
                   sorted_strings |-> sorted_strings([header |-> header])]>>
  /\ pc' = "head_read"
  /\ UNCHANGED metadata
  /\ HeadFrame

HeadNext == BuildMetadataHead \/ MetadataRefNewHead

SpecHead == HeadInit /\ [][HeadNext]_vars

\* C24: whichever offset width W build_metadata chooses, 1, 2, 4 or 8, the
\* header it writes decodes in MetadataRef::new to that W, the width the
\* dictionary size and the offsets were written at, and the header still
\* reads version 1 with the sorted flag set.
C24_HeaderDecodesToWrittenWidth ==
  pc = "head_read" =>
    /\ hist[1].offset_size = determine_byte_width_usize(long_len)
    /\ hist[1].version = 1
    /\ hist[1].sorted_strings

(***************************************************************************)
(* Objects whose last value is too long to be written out: the scratch     *)
(* length after the last append is followed as a usize of eight bytes, and *)
(* finish() is followed up to the final offset.                            *)
(***************************************************************************)
\* write_integer for a usize given by its bytes
push_offset_usize(buf, value, byte_width) == buf \o Take(value, byte_width)

\* ObjectBuilder::finish without its last line: the buffer before the
\* scratch bytes are appended, for a scratch length given as a usize
ObjectBuilder_finish_head(buf, at, pairs, final_offset) ==
  LET offset_width == determine_byte_width_usize(final_offset)
      field_id_width == finish_field_id_width(pairs)
      patched == patch_header(buf, at, offset_width)
      sorted == sort_by_field_id(pairs)
      ids == Flatten([i \in 1..Len(sorted) |-> push_offset(<<>>, sorted[i][1], field_id_width)])
      offs == Flatten([i \in 1..Len(sorted) |-> push_offset(<<>>, sorted[i][2], offset_width)])
  IN push_offset_usize(patched \o ids \o offs, final_offset, offset_width)

\* scratch lengths after the last append: around each width's limit
FinalOffsets ==
  {MagPow2(e, 8) : e \in {7, 15, 16, 31, 32, 63}}
    \cup {MagDec(MagPow2(e, 8)) : e \in {7, 15, 31}}

\* append_value for the last field, its value long enough to bring the
\* scratch buffer to one of the lengths above
ObjectAppendLong ==
  /\ pc = "obj_building"
  /\ Len(hist) = num_elements - 1
  /\ \E key \in NextKeys, final_offset \in FinalOffsets :
       LET r == ObjectBuilder_append_value(metadata_ref, field_id_and_offsets,
                                           tmp_buffer, key, <<>>)
       IN /\ MagCmp(final_offset, MagOf(Len(tmp_buffer), 8)) = "Greater"
          /\ r.tag = "ok"
          /\ field_id_and_offsets' = r.field_id_and_offsets
          /\ long_len' = final_offset
          /\ find' = [NoFind EXCEPT !.key = key]
          /\ hist' = Append(hist, [key |-> key, value |-> <<>>])
  /\ pc' = "obj_long"
  /\ result' = "ok"
  /\ UNCHANGED <<array, values, struct_array, overflow_checks, strings, metadata,
                 metadata_ref, field_offset_width, buffer, header_offset, num_elements,
                 tmp_buffer>>

ObjectFinishLong ==
  /\ pc = "obj_long"
  /\ buffer' = ObjectBuilder_finish_head(buffer, header_offset, field_id_and_offsets, long_len)
  /\ pc' = "obj_long_finished"
  /\ UNCHANGED <<array, values, struct_array, long_len, overflow_checks, strings, metadata,
                 metadata_ref, find, field_offset_width, header_offset, num_elements,
                 field_id_and_offsets, tmp_buffer, hist, result>>

LongNext ==
  \/ BuildMetadata
  \/ MetadataRefNew
  \/ ObjectBuilderWithCapacity
  \/ ObjectAppendValue
  \/ ObjectFinish
  \/ ObjectAppendLong
  \/ ObjectFinishLong

SpecLong == ObjInit /\ [][LongNext]_vars

\* the offset width ObjectRef::try_new decodes from the header byte
header_object_offset_width(buf, at) == (Shr(buf[at + 1], 2) % 4) + 1

\* the offset width finish() wrote the offsets at
finish_offset_width ==
  IF pc = "obj_long_finished" THEN determine_byte_width_usize(long_len)
  ELSE get_offset_size(Len(tmp_buffer))

\* C25: finish() patches the header so that its bits 2-3 decode in
\* ObjectRef::try_new to the offset width the offsets were written at,
\* whichever of 1, 2, 4, 8 it is, and the basic-type bits, the
\* field-id-size bits and the is_large bit stay as with_capacity wrote them.
C25_PatchedHeaderDecodesOffsetWidth ==
  pc \in {"obj_finished", "obj_long_finished"} =>
    LET now == buffer[header_offset + 1]
        was == object_header(num_elements)
    IN /\ header_object_offset_width(buffer, header_offset) = finish_offset_width
       /\ now % 4 = was % 4
       /\ Shr(now, 4) % 4 = Shr(was, 4) % 4
       /\ Shr(now, 6) % 2 = Shr(was, 6) % 2

\* bytes that follow a value in the slice handed to the readers
\* as many zero bytes as two value bytes of a boolean read as a 2-byte offset
LongTrailer ==
  [i \in 1..UnsignedLE(write_bool(<<>>, TRUE) \o write_bool(<<>>, TRUE)) |-> 0]

ValueTrailers == {<<0>>, <<255, 255>>, write_i64(<<>>, Pos(MagOf(42, 8))), LongTrailer}

\* the field ids a reader is asked for: every id of the dictionaries, and
\* the ids the opened object itself shows
ProbeIds(o) == 0..Len(BigDict) \cup {get_field_id(o, k) : k \in 0..(o.len - 1)}

\* what reading data as an object gives: the outcome of try_new and of
\* get_field for every id asked
ReadAsObject(data, ids) ==
  LET o == ObjectRef_try_new(data) IN
  IF o.tag # "ok" THEN [tag |-> o.tag, len |-> 0, fields |-> <<>>]
  ELSE [tag |-> "ok", len |-> o.len,
        fields |-> [id \in ids |-> IF WidthOk(o.field_id_width) THEN get_field(o, id)
                                   ELSE [tag |-> "panic", val |-> <<>>]]]

\* what reading data as an array gives: try_new and get_element(0..n)
ReadAsArray(data, n) ==
  LET a == ArrayRef_try_new(data) IN
  IF a.tag # "ok" THEN [tag |-> a.tag, len |-> 0, elements |-> <<>>]
  ELSE [tag |-> "ok", len |-> a.len,
        elements |-> [i \in 0..n |-> get_element(a, i)]]

\* C26: a finished value followed by any trailing bytes reads the same as
\* the value alone: the same outcome of get_object / get_array and the same
\* get_field(id) and get_element(i) for every id and index.
C26_TrailingBytesDoNotChangeReads ==
  pc \in {"arr_finished", "obj_finished"} =>
    \A t \in ValueTrailers :
      LET v == FinishedValue IN
      IF pc = "arr_finished"
      THEN ReadAsArray(v \o t, num_elements) = ReadAsArray(v, num_elements)
      ELSE LET o == ObjectRef_try_new(v)
               ids == IF o.tag = "ok" /\ WidthOk(o.field_id_width) THEN ProbeIds(o)
                      ELSE 0..Len(BigDict)
           IN ReadAsObject(v \o t, ids) = ReadAsObject(v, ids)

\* the builder's pairs and scratch buffer after append_value of the fields
\* h[i], h[i + 1], .. in that order
RECURSIVE AppendAll(_, _, _, _, _)
AppendAll(m, h, i, pairs, tmp) ==
  IF i > Len(h) THEN [field_id_and_offsets |-> pairs, tmp_buffer |-> tmp]
  ELSE LET r == ObjectBuilder_append_value(m, pairs, tmp, h[i].key, h[i].value)
       IN AppendAll(m, h, i + 1, r.field_id_and_offsets, r.tmp_buffer)

\* the object with_capacity, append_value in the order of h and finish build
\* in an empty buffer
BuiltInOrder(h) ==
  LET s == AppendAll(metadata_ref, h, 1, <<>>, <<>>)
  IN ObjectBuilder_finish(ObjectBuilder_with_capacity(<<>>, Len(h)), 0,
                          s.field_id_and_offsets, s.tmp_buffer)

\* the orders the fields of h are appended in: every order of a small
\* object, the reverse order of a large one
Orders(h) ==
  LET n == Len(h) IN
  IF n <= MaxFields
  THEN {[i \in 1..n |-> h[p[i]]] :
          p \in {q \in [1..n -> 1..n] : \A a, b \in 1..n : a # b => q[a] # q[b]}}
  ELSE {[i \in 1..n |-> h[n + 1 - i]]}

\* the field-id bytes of a finished object of n fields
FieldIdBytes(v, n, w) ==
  Slice(v, 1 + num_elements_width_of(n), 1 + num_elements_width_of(n) + n * w)

\* what a caller reads from the view get_field returned
FieldRead(f) ==
  IF f.tag # "some" THEN <<f.tag>>
  ELSE <<f.tag, primitive_type_id(f.val), get_bool(f.val), get_i64(f.val)>>

\* C27: for one dictionary and one set of (key, value) pairs with distinct
\* keys, the objects built by appending the pairs in two different orders
\* store the same field-id sequence, and get_field(id) reads as the same
\* value in both for every id.
C27_AppendOrderDoesNotMatter ==
  pc = "obj_finished" =>
    \A g \in Orders(hist) :
      LET v1 == FinishedValue
          v2 == BuiltInOrder(g)
          w == finish_field_id_width(field_id_and_offsets)
          o1 == ObjectRef_try_new(v1)
          o2 == ObjectRef_try_new(v2)
      IN /\ FieldIdBytes(v1, num_elements, w) = FieldIdBytes(v2, num_elements, w)
         /\ o1.tag = o2.tag
         /\ o1.tag = "ok" =>
              \A id \in 0..(dictionary_len(metadata_ref) - 1) :
                FieldRead(get_field(o1, id)) = FieldRead(get_field(o2, id))

\* the calls made on the builder b, in order, and the builders of a conversion
CallsOn(calls, b) == SelectSeq(calls, LAMBDA e : e.builder = b)
Builders(calls) == {calls[k].builder : k \in 1..Len(calls)}
CountOp(s, op) == Cardinality({k \in 1..Len(s) : s[k].op = op})

\* the conversion c kept to the builders' protocol
ProtocolKept(c, metadata_view) ==
  /\ \A b \in Builders(c.calls) :
       LET s == CallsOn(c.calls, b) IN
       /\ s[1].op = "new" /\ CountOp(s, "new") = 1
       /\ CountOp(s, "finish") <= 1
       /\ CountOp(s, "finish") = 1 =>
            /\ s[Len(s)].op = "finish"
            /\ CountOp(s, "append") = s[1].n
       /\ CountOp(s, "finish") = 0 => c.tag # "ok"
       /\ \A k \in 1..Len(s) :
            s[k].op = "append" =>
              /\ s[k].scratch = <<>>
              /\ s[k].payload = convert_value(s[k].child, <<>>, metadata_view).buffer
  /\ (c.tag # "ok" /\ c.calls # <<>>) => CountOp(CallsOn(c.calls, <<>>), "finish") = 0

\* C28: in convert_value every ArrayBuilder and ObjectBuilder gets exactly as
\* many append calls as the count declared at its construction before finish()
\* is called, finish() is called at most once per builder, every appended
\* payload is the complete encoding of exactly one child value (the child
\* scratch buffer is empty before each child conversion), and when a child
\* conversion or an append fails finish() is not called and the failure
\* propagates.
C28_BuildersGetTheirDeclaredAppends ==
  pc \in {"json_rows", "json_done", "panicked"} =>
    \A i \in 1..Len(hist) : ProtocolKept(hist[i], metadata_ref)

\* {"a": null, "b": [{"c": 1}]} converted through three builders, and
\* [true, [2^128]] given up after one append with no builder finished
C28_Witness ==
  /\ pc = "json_done"
  /\ \E i, j \in 1..Len(hist) :
       /\ hist[i].tag = "ok" /\ Cardinality(Builders(hist[i].calls)) = 3
       /\ CountOp(hist[i].calls, "finish") = 3 /\ CountOp(hist[i].calls, "append") = 4
       /\ hist[j].tag = "err" /\ Cardinality(Builders(hist[j].calls)) = 2
       /\ CountOp(hist[j].calls, "append") = 1 /\ CountOp(hist[j].calls, "finish") = 0

(***************************************************************************)
(* Builders constructed on a buffer that already holds an encoded value.   *)
(***************************************************************************)
Targets == {write_bool(<<>>, FALSE), write_i64(<<>>, Pos(MagOf(42, 8)))}

OntoInit ==
  /\ overflow_checks \in BOOLEAN
  /\ ArrowIdle
  /\ \/ pc = "arr_init" /\ strings = <<>>
     \/ pc = "input" /\ strings \in ObjDicts
  /\ metadata = <<>> /\ metadata_ref = NoView /\ find = NoFind
  /\ buffer \in Targets /\ header_offset = 0 /\ num_elements = 0
  /\ field_offset_width = 0 /\ field_id_and_offsets = <<>>
  /\ tmp_buffer = <<>> /\ hist = <<>> /\ result = "none"

SpecOnto == OntoInit /\ [][BuildNext]_vars

\* C29: construction, every append and finish() of an ArrayBuilder or an
\* ObjectBuilder on a buffer that already holds bytes only add bytes at the
\* end of the buffer, except that ObjectBuilder::finish rewrites the object's
\* own header byte at the recorded header offset, which lies after every byte
\* the buffer held before construction.
C29_OnlyTheHeaderByteIsRewritten ==
  [][/\ Len(buffer') >= Len(buffer)
     /\ \A k \in 1..Len(buffer) :
          buffer'[k] # buffer[k] =>
            /\ pc = "obj_building" /\ pc' = "obj_finished"
            /\ k = header_offset + 1
     /\ pc \in {"arr_init", "open"} /\ pc' \in {"arr_building", "obj_building"} =>
          header_offset' = Len(buffer)
     /\ pc \in {"arr_building", "obj_building"} => header_offset' = header_offset]_vars

\* an object finished behind a value already in the buffer, its header byte
\* rewritten with the two-byte offset width of a 128-byte value region
C29_Witness ==
  /\ pc = "obj_finished"
  /\ header_offset > 0 /\ Take(buffer, header_offset) \in Targets
  /\ get_offset_size(Len(tmp_buffer)) = 2
  /\ buffer[header_offset + 1] # ObjectBuilder_with_capacity(<<>>, num_elements)[1]

(***************************************************************************)
(* arrow-open-variant/src/array.rs: VariantArray.  The column is a struct  *)
(* of a dictionary column (Int8 keys over binary values) and a binary      *)
(* column; an Arrow entry is [valid, value].  pc tells the data type of    *)
(* the array handed to try_new.                                            *)
(***************************************************************************)
MaxDict == 3
MaxKeys == 2

NullEntry == [valid |-> FALSE, value |-> <<>>]
NullKey == [valid |-> FALSE, value |-> 0]
Entry(v) == [valid |-> TRUE, value |-> v]

\* the dictionaries of no string and of the string "a"
DictValues == {NullEntry, Entry(build_metadata(<<>>)), Entry(build_metadata(<<<<97>>>>))}

\* the variant bytes of the rows in turn: null entry, variant null, no bytes
\* at all
RowValue(i) ==
  IF i % 3 = 1 THEN NullEntry ELSE IF i % 3 = 2 THEN Entry(write_null(<<>>)) ELSE Entry(<<>>)

\* the columns try_new is handed: every valid key is inside the dictionary
Columns ==
  {[metadata |-> [keys |-> k, values |-> d], values |-> [i \in 1..Len(k) |-> RowValue(i + Len(d))]] :
     <<k, d>> \in UNION {SeqsUpTo({NullKey} \cup {Entry(j) : j \in 0..(Len(dv) - 1)}, MaxKeys)
                           \X {dv} : dv \in SeqsUpTo(DictValues, MaxDict)}}

\* VariantArray::try_new on an array of the variant type
VariantArray_try_new(column) ==
  LET kept == SelectSeq(column.metadata.values, LAMBDA v : v.valid)
      metadatas == [i \in 1..Len(kept) |-> MetadataRef_new(kept[i].value)]
  IN IF \E i \in 1..Len(metadatas) : ~metadatas[i].ok THEN Panic
     ELSE Ok([metadatas |-> metadatas, metadata_indices |-> column.metadata.keys,
              values |-> column.values])

\* VariantArray::metadata: [tag, val]
VariantArray_metadata(self, index) ==
  IF ~self.metadata_indices[index + 1].valid THEN [tag |-> "none", val |-> NoView]
  ELSE LET i == self.metadata_indices[index + 1].value IN
       IF i >= 0 /\ i < Len(self.metadatas)
       THEN [tag |-> "some", val |-> self.metadatas[i + 1]]
       ELSE [tag |-> "none", val |-> NoView]

\* VariantArray::value: Ok(None), Ok(Some(view)) or Err
VariantArray_value(self, index) ==
  IF ~self.values[index + 1].valid THEN [tag |-> "none", val |-> <<>>]
  ELSE LET v == VariantRef_try_new(self.values[index + 1].value) IN
       IF v.tag = "ok" THEN [tag |-> "some", val |-> v.val] ELSE Err

ColumnInit ==
  /\ overflow_checks \in BOOLEAN
  /\ \/ pc = "variant_column" /\ struct_array \in Columns
     \/ pc = "other_column" /\ struct_array = NoOutput
  /\ array = <<>> /\ values = <<>> /\ long_len = <<>>
  /\ strings = <<>>
  /\ metadata = <<>> /\ metadata_ref = NoView /\ find = NoFind
  /\ buffer = <<>> /\ header_offset = 0 /\ num_elements = 0
  /\ field_offset_width = 0 /\ field_id_and_offsets = <<>>
  /\ tmp_buffer = <<>> /\ hist = <<>> /\ result = "none"

ColumnFrame ==
  UNCHANGED <<overflow_checks, struct_array, values, long_len, strings, metadata,
              metadata_ref, find, buffer, header_offset, num_elements,
              field_offset_width, field_id_and_offsets, tmp_buffer>>

\* lines 20-25: not the variant type
VariantArrayTryNewOther ==
  /\ pc = "other_column"
  /\ pc' = "column_done" /\ result' = "err"
  /\ UNCHANGED <<array, hist>>
  /\ ColumnFrame

\* lines 26-43
VariantArrayTryNew ==
  /\ pc = "variant_column"
  /\ LET r == VariantArray_try_new(struct_array)
     IN /\ result' = r.tag
        /\ array' = IF r.tag = "ok" THEN <<r.val>> ELSE <<>>
        /\ pc' = IF r.tag = "ok" THEN "variant_array" ELSE "panicked"
  /\ UNCHANGED hist
  /\ ColumnFrame

\* metadata(index) on a row of the column; hist keeps index and result
VariantArrayMetadata ==
  /\ pc \in {"variant_array", "metadata", "value"}
  /\ \E index \in 0..(Len(array[1].metadata_indices) - 1) :
       LET r == VariantArray_metadata(array[1], index)
       IN /\ hist' = <<[index |-> index, tag |-> r.tag, val |-> r.val]>>
          /\ result' = r.tag
  /\ pc' = "metadata"
  /\ UNCHANGED array
  /\ ColumnFrame

\* value(index) on a row of the column
VariantArrayValue ==
  /\ pc \in {"variant_array", "metadata", "value"}
  /\ \E index \in 0..(Len(array[1].values) - 1) :
       LET r == VariantArray_value(array[1], index)
       IN /\ hist' = <<[index |-> index, tag |-> r.tag, val |-> r.val]>>
          /\ result' = r.tag
  /\ pc' = "value"
  /\ UNCHANGED array
  /\ ColumnFrame

ColumnNext ==
  \/ VariantArrayTryNewOther
  \/ VariantArrayTryNew
  \/ VariantArrayMetadata
  \/ VariantArrayValue

SpecColumn == ColumnInit /\ [][ColumnNext]_vars

\* C30: for every row i of a variant column, metadata(i) is None when row i's
\* dictionary key is null, and otherwise the view over the dictionary value
\* at the position the key gives, also when null entries come before that
\* position in the dictionary's values.
C30_MetadataIsTheValueAtTheKey ==
  pc = "metadata" =>
    LET key == struct_array.metadata.keys[hist[1].index + 1]
        at == struct_array.metadata.values[key.value + 1]
    IN IF ~key.valid THEN hist[1].tag = "none"
       ELSE at.valid => (hist[1].tag = "some" /\ hist[1].val = MetadataRef_new(at.value))
====
